---- MODULE Spec2Model ----
(***************************************************************************)
(* A model of the batch jobs of loop-pull-hi-cvs:                          *)
(*   daily_CV_and_candidate_importer.py  (job "importer")                  *)
(*   pull_and_link_cvs.py                (job "pull")                      *)
(*   hi_candidate_screenshot_job.py, hi_cv_downloader.py,                  *)
(*   multi_candidate_screenshot.py, scrape_cv_links.py (job "browser")     *)
(* The jobs share nothing but the table candidates_daily_report and the    *)
(* buckets.  Every call to the outside world (Secret Manager, the partner  *)
(* API, Cloud SQL, GCS, the browser) either returns or raises; which one   *)
(* is a nondeterministic choice of the action that models the call.        *)
(***************************************************************************)
EXTENDS Integers, Sequences, FiniteSets, TLC

VARIABLES
    job,            \* which script this behaviour runs: "importer", "pull", "browser"
    clock,          \* datetime.now(timezone.utc), in the unit of created_on
    \* ---- the database (shared by importer and pull) ----
    tableOrigin,    \* "absent", "preexisting" (made outside the repository, with
                    \* the unique index the upsert names) or "made" (by
                    \* create_candidates_table, which creates no index)
    table,          \* committed rows of candidates_daily_report
    \* ---- one process of the importer ----
    ipc,            \* position in main()
    runNo,          \* how many importer processes have been started
    engine,         \* db_engine of main(): "none", "created", "disposed"
    connector,      \* the module's Connector: "open", "closed"
    exitStatus,     \* "running", "exit0", "exit1"
    pending,        \* the exit the try block chose before `finally` runs
    raised,         \* which step raised into main's handler ("" when none)
    df,             \* the DataFrame of insert_candidate_data
    idx,            \* index of the row / record being processed
    cvpc,           \* position inside one iteration of the CV loop
    meta,           \* (file_name, cv_file_name) of the current iteration
    records,        \* df_final.to_dict(orient='records')
    txn,            \* table as seen inside the engine.begin() transaction
    caught,         \* the step whose exception fetch_data_from_api caught ("" when none)
    sqlState,       \* SQLSTATE of the statement that failed last ("" when none)
    tableAtStart,   \* table when this process started
    prev,           \* the last finished run, for as long as this run gets the same
                    \* records and the same CV outcomes: its batch after the CV
                    \* loop and the table it left
    \* ---- fetch_data_from_api of the importer, page by page ----
    server,         \* the partner API: what its report pages hold
    fpc,            \* position in fetch_data_from_api
    auth,           \* the login response: "" before it, "complete", "incomplete"
    page_no,        \* page_no
    all_data,       \* all_data: the records collected, as their numbers
    gets,           \* the report requests made, each with the response it got
    fReturned,      \* the rows of the DataFrame returned
    \* ---- the processes of pull_and_link_cvs (one entry per process) ----
    procs,          \* the processes the scheduler started
    pRunNo,         \* how many times the scheduler has started the job
    auth_token,     \* auth_token of main(): NA for None
    dates_var,      \* cfg.get("DATES"): NA for None
    counts,         \* processed_count, download_success_count, download_fail_count
    plog,           \* the SQL statements the process has executed, in order
    ppc,            \* position in main()
    pEngine,        \* db_engine: "none", "created", "disposed"
    pConnector,     \* the process's Connector: "open", "closed"
    pExit,          \* "running", "exit0", "exit1"
    pPending,       \* the exit chosen before `finally` runs
    pRaised,        \* which step raised or called sys.exit(1) ("" when none)
    range,          \* start_date_obj, end_date_obj
    cands,          \* candidates_to_process
    pidx,           \* index of the candidate being processed
    cur,            \* cv_gcs_path and cv_download_status of that candidate
    transfers,      \* ids of the rows whose CV the process downloaded and uploaded
    \* ---- one process of a browser script ----
    script,         \* "shot", "dl", "multi", "scrape"
    bpc,            \* position in main() / run()
    driver,         \* main's variable `driver`: "none" or "set"
    browsers,       \* browsers started by webdriver.Chrome(...)
    quits,          \* browsers on which driver.quit() was called
    bExit,          \* "running", "exit0", "exit1"
    bPending,       \* the return value or exit chosen before `finally` runs
    bRaised,        \* which step raised ("" when none)
    maxRetries,     \* config.max_retries
    attempt,        \* loop variable of setup_driver
    shots,          \* labels of the screenshots uploaded, in order
    tmpFiles,       \* temporary screenshot files on disk
    cvList,         \* cv_list of hi_cv_downloader.main
    cvIdx,          \* index of the cv being processed
    cvReqs,         \* per cv: the requests download_cv sent, in order
    cvName,         \* cv_data['file_name'] of the cv being processed
    cvUploads,      \* the calls of upload_file_to_gcs, in order: the cv and the answer
    \* ---- perform_login of hi_cv_downloader, step by step ----
    lpc,            \* position in perform_login
    login_success,  \* login_success
    lElem,          \* the form element searched: 1 email, 2 password, 3 submit
    lAttempt,       \* attempt of the search loop
    lSel,           \* the selector of the element tried next
    lLog,           \* what the function did to the browser and the bucket, in order
    lPending,       \* what the try or except block left for finally: a return
                    \* value or an exception
    lResult         \* how the call ended: "", "True", "False" or "raised"

dbVars == <<tableOrigin, table>>
fetchVars == <<server, fpc, auth, page_no, all_data, gets, fReturned>>
loginVars == <<lpc, login_success, lElem, lAttempt, lSel, lLog, lPending, lResult>>
impVars == <<ipc, runNo, engine, connector, exitStatus, pending, raised, df, idx,
             cvpc, meta, records, txn, caught, sqlState, tableAtStart, prev,
             fetchVars, loginVars>>
pullVars == <<procs, pRunNo, auth_token, dates_var, counts, plog, ppc, pEngine, pConnector, pExit, pPending, pRaised, range, cands,
              pidx, cur, transfers>>
brVars == <<script, bpc, driver, browsers, quits, bExit, bPending, bRaised,
             maxRetries, attempt, shots, tmpFiles, cvList, cvIdx, cvReqs, cvName,
             cvUploads>>
otherThanImp == <<job, clock, pullVars, brVars, fetchVars, loginVars>>

-----------------------------------------------------------------------------
(* Bounds of the model *)

\* importer processes run one after the other in a behaviour
MaxRuns == 2
\* records the partner API returns for one day
MaxBatch == 2

-----------------------------------------------------------------------------
(* Values *)

\* pd.NA / None in the DataFrame, NULL in the table (text columns)
NA == "pd.NA"
\* pd.NA / NULL of the integer columns cv_id and user_id
NoId == 0
\* pd.NaT: what pd.to_datetime(errors='coerce') gives for an unparseable value
NaT == -1
\* cv_download_status VARCHAR(50)
StatusColumnWidth == 50

CV_BUCKET_NAME == "intelligent-recruitment-cvs"

RECURSIVE Lower(_)
LowerChar(c) ==
    CASE c = "A" -> "a" [] c = "B" -> "b" [] c = "J" -> "j"
      [] c = "N" -> "n" [] c = "X" -> "x" [] OTHER -> c
\* str.lower()
Lower(s) ==
    IF s = "" THEN "" ELSE LowerChar(SubSeq(s, 1, 1)) \o Lower(SubSeq(s, 2, Len(s)))

RECURSIVE Strip(_)
\* str.strip()
Strip(s) ==
    IF s = "" THEN ""
    ELSE IF SubSeq(s, 1, 1) = " " THEN Strip(SubSeq(s, 2, Len(s)))
    ELSE IF SubSeq(s, Len(s), Len(s)) = " " THEN Strip(SubSeq(s, 1, Len(s) - 1))
    ELSE s

\* SQL: s LIKE 'prefix%'  (NULL LIKE ... is not true)
Like(s, prefix) ==
    /\ s # NA
    /\ Len(s) >= Len(prefix)
    /\ SubSeq(s, 1, Len(prefix)) = prefix

Digits == <<"0", "1", "2", "3", "4", "5", "6", "7", "8", "9">>
IsDigit(c) == \E d \in 1..10 : Digits[d] = c
DigitVal(c) == (CHOOSE d \in 1..10 : Digits[d] = c) - 1

RECURSIVE ParseMs(_, _)
ParseMs(s, acc) ==
    IF s = "" THEN acc
    ELSE IF ~IsDigit(SubSeq(s, 1, 1)) THEN NaT
    ELSE ParseMs(SubSeq(s, 2, Len(s)), acc * 10 + DigitVal(SubSeq(s, 1, 1)))

\* pd.to_datetime(x, errors='coerce', utc=True): timestamps are written here as
\* milliseconds of the day; NA, '' and anything that is no timestamp give NaT
ToDatetime(x) == IF x = NA \/ x = "" THEN NaT ELSE ParseMs(x, 0)

\* .dt.floor('S')
FloorS(t) == (t \div 1000) * 1000

-----------------------------------------------------------------------------
(* The partner API as the importer sees it *)

\* The records MultiCandidateAdmin may return, with the keys already renamed
\* to the column names (df.rename): two spell the same candidate and job
\* differently, one has no email and no userId, one has no usable createdOn.
ApiRecords ==
    { [email |-> "Ab@x", job_ref_number |-> "J1", created_on |-> "1000",
       cv_id |-> 7, user_id |-> 5],
      [email |-> " ab@X", job_ref_number |-> "j1 ", created_on |-> "1400",
       cv_id |-> 7, user_id |-> NoId],
      [email |-> NA, job_ref_number |-> "J1", created_on |-> "2000",
       cv_id |-> 8, user_id |-> NoId],
      [email |-> "Ab@x", job_ref_number |-> "", created_on |-> "soon",
       cv_id |-> NoId, user_id |-> NoId] }

Batches == UNION { [1..n -> ApiRecords] : n \in 0..MaxBatch }

\* data of a CandidateCombination response: fileName, cvFileName
MetaResponses ==
    { [status |-> "200", file_name |-> "k7", cv_file_name |-> "cv7.pdf"],
      [status |-> "200", file_name |-> "", cv_file_name |-> "cv7.pdf"],
      [status |-> "200", file_name |-> "k7", cv_file_name |-> NA] }

NoMeta == [status |-> "", file_name |-> NA, cv_file_name |-> NA]

\* what the caller has of a request that raised (requests.get,
\* raise_for_status, json)
MetaRaised == [status |-> "raised", file_name |-> NA, cv_file_name |-> NA]

\* str(e) of what requests raises: an HTTPError names the URL, a JSON decoding
\* error does not
HttpErrorText == "404 Client Error: Not Found for url: https://partnersapi.applygateway.com/api/Candidate"
JsonErrorText == "Expecting value: line 1 column 1 (char 0)"

NoPrev == [none |-> TRUE]

-----------------------------------------------------------------------------
(* daily_CV_and_candidate_importer.py *)

\* upload_to_gcs: the path on success, None when the upload raised
upload_to_gcs(ok, file_name) ==
    IF ok THEN "gs://" \o CV_BUCKET_NAME \o "/cvs/" \o file_name ELSE NA

\* lines 329-331: the batch as the CV loop starts
NewFrame(b) ==
    [i \in 1..Len(b) |->
        [email |-> b[i].email, job_ref_number |-> b[i].job_ref_number,
         created_on |-> b[i].created_on, cv_id |-> b[i].cv_id,
         user_id |-> b[i].user_id,
         cv_gcs_path |-> NA, cv_download_status |-> NA, reqs |-> <<>>]]

RawOf(frame) ==
    [i \in 1..Len(frame) |->
        [email |-> frame[i].email, job_ref_number |-> frame[i].job_ref_number,
         created_on |-> frame[i].created_on, cv_id |-> frame[i].cv_id,
         user_id |-> frame[i].user_id]]

\* Variant: the download is tried whatever the metadata says
HasFileNameLax(m) == TRUE

\* line 343: `if file_name and cv_file_name`
HasFileName(m) ==
    /\ m.file_name # NA /\ m.file_name # ""
    /\ m.cv_file_name # NA /\ m.cv_file_name # ""

\* a GET request as the log of a candidate's requests keeps it: the endpoint
\* and what came back
Get(endpoint, response) == [endpoint |-> endpoint, response |-> response]

\* the request raised (raise_for_status, or the json of the response)
GetRaised(req) ==
    IF req.endpoint = "download"
    THEN req.response = "raised"
    ELSE req.response.status = "raised"

\* Variant: the status does not look at what upload_to_gcs returned
StatusAlwaysSuccess(gcs_path) == "Success"

\* line 347
StatusOfUpload(gcs_path) == IF gcs_path # NA THEN "Success" ELSE "Failed"

\* line 375: object columns become strings, '' becomes NA
EmptyToNA(x) == IF x = "" THEN NA ELSE x
\* .astype(str): NA becomes the text "<NA>"
AsStr(x) == IF x = NA THEN "<NA>" ELSE x
\* Variant: lowercased but not stripped
NormalizeNoStrip(x) == Lower(AsStr(EmptyToNA(x)))

\* lines 379, 382
Normalize(x) == Lower(Strip(AsStr(EmptyToNA(x))))

\* lines 370-399, one row
CleanRow(r) ==
    [email |-> Normalize(r.email),
     job_ref_number |-> Normalize(r.job_ref_number),
     created_on |-> LET t == ToDatetime(EmptyToNA(r.created_on))
                    IN  IF t = NaT THEN NaT ELSE FloorS(t),
     cv_id |-> r.cv_id, user_id |-> r.user_id,
     cv_gcs_path |-> r.cv_gcs_path,
     cv_download_status |-> r.cv_download_status]

\* lines 396, 403, 409: the three dropna calls
KeepRow(c) == c.created_on # NaT /\ c.job_ref_number # NA /\ c.email # NA

\* lines 370-430
Clean(frame) ==
    SelectSeq([i \in 1..Len(frame) |-> CleanRow(frame[i])], KeepRow)

\* index_elements of the upsert (lines 440-444)
KeyOf(r) == <<Lower(r.email), Lower(r.job_ref_number), r.created_on>>

\* id SERIAL: a value no row has
NextId(tbl) ==
    IF tbl = {} THEN 1
    ELSE 1 + (CHOOSE m \in {r.id : r \in tbl} : \A r \in tbl : r.id <= m)

\* The columns the statement does not name get their defaults:
\* etl_load_timestamp CURRENT_TIMESTAMP, and NULL for email_sent_timestamp,
\* email_status and email_error_message, which email_status stands for.
InsertRow(tbl, rec) ==
    tbl \cup { [id |-> NextId(tbl), email |-> rec.email,
                job_ref_number |-> rec.job_ref_number,
                created_on |-> rec.created_on,
                cv_id |-> rec.cv_id, user_id |-> rec.user_id,
                cv_gcs_path |-> rec.cv_gcs_path,
                cv_download_status |-> rec.cv_download_status,
                etl_load_timestamp |-> "at insert",
                email_status |-> NA] }

\* Variant: on a conflict every column of the row but its id is written
\* again, the ones the record does not have with their defaults
UpdateRowAllColumns(row, rec) ==
    [row EXCEPT !.cv_id = rec.cv_id, !.user_id = rec.user_id,
                !.cv_gcs_path = rec.cv_gcs_path,
                !.cv_download_status = rec.cv_download_status,
                !.etl_load_timestamp = "at insert",
                !.email_status = NA]

\* DO UPDATE SET of update_cols (lines 421-427, 445)
UpdateRow(row, rec) ==
    [row EXCEPT !.cv_id = rec.cv_id, !.user_id = rec.user_id,
                !.cv_gcs_path = rec.cv_gcs_path,
                !.cv_download_status = rec.cv_download_status]

\* Variant: a plain INSERT, without the ON CONFLICT clause
UpsertInsertOnly(tbl, rec) == InsertRow(tbl, rec)

\* INSERT ... ON CONFLICT (lower(email), lower(job_ref_number), created_on)
\* DO UPDATE, lines 438-447, when the statement executes
Upsert(tbl, rec) ==
    IF \E row \in tbl : KeyOf(row) = KeyOf(rec)
    THEN { IF KeyOf(row) = KeyOf(rec) THEN UpdateRow(row, rec) ELSE row : row \in tbl }
    ELSE InsertRow(tbl, rec)

\* The statement needs a unique index on its conflict target: the table of
\* create_candidates_table (lines 125-158) has none.
HasUniqueIndex == tableOrigin = "preexisting"

\* What PostgreSQL answers to the upsert of rec: "" when it executes
UpsertError(rec) ==
    IF ~HasUniqueIndex THEN "42P10"
    ELSE IF rec.cv_download_status # NA
            /\ Len(rec.cv_download_status) > StatusColumnWidth THEN "22001"
    ELSE ""

-----------------------------------------------------------------------------
(* main() of the importer, lines 458-487 *)

ImpStart ==
    /\ ipc = "load_config" /\ runNo = 1 /\ engine = "none" /\ connector = "open"
    /\ exitStatus = "running" /\ pending = "" /\ raised = ""
    /\ df = <<>> /\ idx = 0 /\ cvpc = "" /\ meta = NoMeta /\ records = <<>>
    /\ txn = {} /\ caught = "" /\ sqlState = "" /\ tableAtStart = table
    /\ prev = NoPrev
    /\ fpc = "login" /\ auth = "" /\ page_no = 1 /\ all_data = <<>>
    /\ gets = <<>> /\ fReturned = <<>>

\* an exception reaches `except Exception` of main: sys.exit(1), then finally
ImpRaise(step) ==
    /\ raised' = step
    /\ pending' = "exit1"
    /\ ipc' = "finally"

\* line 462
ImpLoadConfig ==
    /\ job = "importer" /\ ipc = "load_config"
    /\ \/ ipc' = "get_db_engine" /\ UNCHANGED <<raised, pending>>
       \/ ImpRaise("load_config")
    /\ UNCHANGED <<dbVars, otherThanImp, caught, runNo, engine, connector, exitStatus, df,
                   idx, cvpc, meta, records, txn, sqlState, tableAtStart, prev>>

\* line 463
ImpGetDbEngine ==
    /\ job = "importer" /\ ipc = "get_db_engine"
    /\ \/ engine' = "created" /\ ipc' = "create_table" /\ UNCHANGED <<raised, pending>>
       \/ ImpRaise("get_db_engine") /\ UNCHANGED engine
    /\ UNCHANGED <<dbVars, otherThanImp, caught, runNo, connector, exitStatus, df, idx, cvpc,
                   meta, records, txn, sqlState, tableAtStart, prev>>

\* line 464, create_candidates_table: CREATE TABLE IF NOT EXISTS
ImpCreateTable ==
    /\ job = "importer" /\ ipc = "create_table"
    /\ \/ /\ tableOrigin' = IF tableOrigin = "absent" THEN "made" ELSE tableOrigin
          /\ ipc' = "fetch"
          /\ UNCHANGED <<raised, pending>>
       \/ ImpRaise("create_table") /\ UNCHANGED tableOrigin
    /\ UNCHANGED <<table, otherThanImp, caught, runNo, engine, connector, exitStatus, df, idx,
                   cvpc, meta, records, txn, sqlState, tableAtStart, prev>>

\* the run still gets what the last run got
SameBatch(b) == prev # NoPrev /\ RawOf(prev.df) = b

\* lines 466-474: fetch_data_from_api (lines 214-294) returns the batch, or an
\* empty DataFrame when there is no data or when it caught the exception of
\* the login or of the report request; on an empty one main leaves with
\* sys.exit(0)
ImpFetch ==
    /\ job = "importer" /\ ipc = "fetch"
    /\ \/ \E b \in Batches :
             /\ prev' = IF SameBatch(b) /\ b # <<>> THEN prev ELSE NoPrev
             /\ caught' = ""
             /\ IF b = <<>>
                THEN /\ pending' = "exit0" /\ ipc' = "finally"
                     /\ UNCHANGED <<df, idx, cvpc>>
                ELSE /\ df' = NewFrame(b) /\ idx' = 1 /\ cvpc' = "meta"
                     /\ ipc' = "cv_loop"
                     /\ UNCHANGED pending
       \/ \E step \in {"login", "report"} :
             /\ caught' = step
             /\ prev' = NoPrev
             /\ pending' = "exit0" /\ ipc' = "finally"
             /\ UNCHANGED <<df, idx, cvpc>>
    /\ UNCHANGED <<dbVars, otherThanImp, runNo, engine, connector, exitStatus, raised,
                   meta, records, txn, sqlState, tableAtStart>>

\* Variant: an exception in the iteration of a row ends the loop, the rows
\* after it are not attempted
ImpRowDoneStops(path, status, reqs) ==
    LET row == [df[idx] EXCEPT !.cv_gcs_path = path,
                               !.cv_download_status = status,
                               !.reqs = reqs]
        excepted == reqs # <<>> /\ GetRaised(reqs[Len(reqs)])
    IN  /\ df' = [df EXCEPT ![idx] = row]
        /\ prev' = IF prev # NoPrev /\ prev.df[idx] = row THEN prev ELSE NoPrev
        /\ meta' = NoMeta
        /\ cvpc' = "meta"
        /\ IF idx < Len(df) /\ ~excepted
           THEN idx' = idx + 1 /\ ipc' = "cv_loop"
           ELSE idx' = 0 /\ ipc' = "clean"

\* the iteration of row idx ends with this path and status (lines 346-358)
ImpRowDone(path, status, reqs) ==
    LET row == [df[idx] EXCEPT !.cv_gcs_path = path,
                               !.cv_download_status = status,
                               !.reqs = reqs]
    IN  /\ df' = [df EXCEPT ![idx] = row]
        /\ prev' = IF prev # NoPrev /\ prev.df[idx] = row THEN prev ELSE NoPrev
        /\ meta' = NoMeta
        /\ cvpc' = "meta"
        /\ IF idx < Len(df)
           THEN idx' = idx + 1 /\ ipc' = "cv_loop"
           ELSE idx' = 0 /\ ipc' = "clean"

\* lines 339-343, 349-357: the id check and the CandidateCombination GET
ImpCvMeta ==
    /\ job = "importer" /\ ipc = "cv_loop" /\ cvpc = "meta"
    /\ LET row == df[idx] IN
       IF row.cv_id = NoId \/ row.user_id = NoId
       THEN ImpRowDone(NA, "Failed - Missing CV ID or User ID", row.reqs)
       ELSE \/ \E e \in {HttpErrorText, JsonErrorText} :
                  ImpRowDone(NA, "Failed - " \o e,
                             <<Get("CandidateCombination", MetaRaised)>>)
            \/ \E m \in MetaResponses :
                  IF HasFileName(m)
                  THEN /\ meta' = m /\ cvpc' = "file"
                       /\ df' = [df EXCEPT ![idx].reqs =
                                    <<Get("CandidateCombination", m)>>]
                       /\ UNCHANGED <<idx, ipc, prev>>
                  ELSE ImpRowDone(NA, "Failed - No file name",
                                  <<Get("CandidateCombination", m)>>)
    /\ UNCHANGED <<dbVars, otherThanImp, caught, runNo, engine, connector, exitStatus, pending,
                   raised, records, txn, sqlState, tableAtStart>>

\* line 344: the download GET
ImpCvFile ==
    /\ job = "importer" /\ ipc = "cv_loop" /\ cvpc = "file"
    /\ \/ ImpRowDone(NA, "Failed - " \o HttpErrorText,
                      Append(df[idx].reqs, Get("download", "raised")))
       \/ /\ cvpc' = "upload"
          /\ df' = [df EXCEPT ![idx].reqs = Append(df[idx].reqs, Get("download", "200"))]
          /\ UNCHANGED <<idx, ipc, prev, meta>>
    /\ UNCHANGED <<dbVars, otherThanImp, caught, runNo, engine, connector, exitStatus, pending,
                   raised, records, txn, sqlState, tableAtStart>>

\* lines 345-347
ImpCvUpload ==
    /\ job = "importer" /\ ipc = "cv_loop" /\ cvpc = "upload"
    /\ \E ok \in BOOLEAN :
          LET gcs_path == upload_to_gcs(ok, meta.cv_file_name)
          IN  ImpRowDone(gcs_path, StatusOfUpload(gcs_path), df[idx].reqs)
    /\ UNCHANGED <<dbVars, otherThanImp, caught, runNo, engine, connector, exitStatus, pending,
                   raised, records, txn, sqlState, tableAtStart>>

\* lines 360-433: cleaning, reflection of the table, to_dict; nothing to
\* upsert ends insert_candidate_data and main normally
ImpClean ==
    /\ job = "importer" /\ ipc = "clean"
    /\ \/ /\ records' = Clean(df)
          /\ IF Clean(df) = <<>>
             THEN /\ pending' = "exit0" /\ ipc' = "finally"
                  /\ UNCHANGED <<idx, txn, raised>>
             ELSE /\ ipc' = "upsert" /\ idx' = 1 /\ txn' = table
                  /\ UNCHANGED <<pending, raised>>
       \/ ImpRaise("reflect") /\ UNCHANGED <<records, idx, txn>>
    /\ UNCHANGED <<dbVars, otherThanImp, caught, runNo, engine, connector, exitStatus, df, cvpc,
                   meta, sqlState, tableAtStart, prev>>

\* Variant: the statements executed before the failing one are committed
ImpCommitPartial(state) ==
    /\ table' = txn
    /\ sqlState' = state
    /\ ImpRaise("upsert")
    /\ UNCHANGED <<txn, idx>>

\* the transaction is rolled back and the exception re-raised (lines 436, 454-456)
ImpRollback(state) ==
    /\ txn' = table
    /\ sqlState' = state
    /\ ImpRaise("upsert")
    /\ UNCHANGED <<table, idx>>

\* lines 437-451: one statement of the loop, or the commit that ends the block
ImpUpsert ==
    /\ job = "importer" /\ ipc = "upsert"
    /\ IF idx <= Len(records)
       THEN \/ ImpRollback("08006")
            \/ /\ UpsertError(records[idx]) # ""
               /\ ImpRollback(UpsertError(records[idx]))
            \/ /\ UpsertError(records[idx]) = ""
               /\ txn' = Upsert(txn, records[idx])
               /\ idx' = idx + 1
               /\ UNCHANGED <<table, sqlState, raised, pending, ipc>>
       ELSE \/ ImpRollback("08006")
            \/ /\ table' = txn
               /\ pending' = "exit0" /\ ipc' = "finally"
               /\ UNCHANGED <<txn, sqlState, raised, idx>>
    /\ UNCHANGED <<tableOrigin, otherThanImp, caught, runNo, engine, connector, exitStatus, df,
                   cvpc, meta, records, tableAtStart, prev>>

\* Variant: sys.exit ends the process at once, the finally block does not run
ImpExitSkipsFinally ==
    /\ job = "importer" /\ ipc = "finally"
    /\ exitStatus' = pending
    /\ ipc' = "exited"
    /\ UNCHANGED <<dbVars, otherThanImp, caught, runNo, engine, connector, pending,
                   raised, df, idx, cvpc, meta, records, txn, sqlState, tableAtStart,
                   prev>>

\* lines 481-487, then the process ends with the status chosen before
ImpFinally ==
    /\ job = "importer" /\ ipc = "finally"
    /\ connector' = "closed"
    /\ engine' = IF engine = "created" THEN "disposed" ELSE engine
    /\ exitStatus' = pending
    /\ ipc' = "exited"
    /\ UNCHANGED <<dbVars, otherThanImp, caught, runNo, pending, raised, df, idx, cvpc, meta,
                   records, txn, sqlState, tableAtStart, prev>>

\* what the finished run did can be compared with a run that gets the same
\* input: it went through the CV loop, and no outage cut its upsert short
Comparable ==
    /\ df # <<>>
    /\ \/ raised = ""
       \/ raised = "upsert" /\ sqlState \in {"42P10", "22001"}

\* the scheduler starts the job again
\* a new process: nothing of the last one is left but the table
ImpFresh ==
    /\ ipc' = "load_config" /\ engine' = "none" /\ connector' = "open"
    /\ exitStatus' = "running" /\ pending' = "" /\ raised' = ""
    /\ df' = <<>> /\ idx' = 0 /\ cvpc' = "" /\ meta' = NoMeta /\ records' = <<>>
    /\ txn' = {} /\ caught' = "" /\ sqlState' = "" /\ tableAtStart' = table

ImpNextRun ==
    /\ job = "importer" /\ ipc = "exited" /\ runNo < MaxRuns
    /\ runNo' = runNo + 1
    /\ ImpFresh
    /\ prev' = IF Comparable THEN [df |-> df, table |-> table] ELSE NoPrev
    /\ UNCHANGED <<dbVars, otherThanImp>>

\* ---- fetch_data_from_api page by page (lines 214-294) ----

\* "limit": 100 of the report request, and the 100 of the loop's test
PageLimit == 100
\* the most records the API holds for the day
MaxN == 250

\* The API as the report request sees it: "paged" holds n records for the day,
\* serves them in pages of PageLimit and reports getCount = n; "any" answers
\* a page request with any response of ReportResponses
Servers == [kind : {"paged"}, n : 0..MaxN] \cup {[kind |-> "any", n |-> 0]}
NoServer == [kind |-> "none", n |-> 0]

\* a response: how many records its data holds, and its getCount if it has one
ReportResponses ==
    [len : {0, PageLimit - 1, PageLimit}, hasCount : BOOLEAN,
     getCount : {0, PageLimit, PageLimit + 1, 2 * PageLimit, MaxN}]

Min(a, b) == IF a < b THEN a ELSE b
Max(a, b) == IF a < b THEN b ELSE a

PagedResponse(n, p) ==
    [len |-> Max(0, Min(PageLimit, n - (p - 1) * PageLimit)),
     hasCount |-> TRUE, getCount |-> n]

ResponsesOf(sv, p) ==
    IF sv.kind = "paged" THEN {PagedResponse(sv.n, p)}
    ELSE { r \in ReportResponses : r.hasCount \/ r.getCount = 0 }

\* the records of page p, by their numbers in the order of the report
PageData(p, len) == [i \in 1..len |-> (p - 1) * PageLimit + i]

\* Variant: a response without getCount stands for a count not known, which
\* does not end the loop
TotalCountOrMany(resp) == IF resp.hasCount THEN resp.getCount ELSE MaxN + PageLimit

\* line 272: data.get("getCount", 0)
TotalCount(resp) == IF resp.hasCount THEN resp.getCount ELSE 0

\* Variant: the loop goes on when the pages so far hold just total_count
LastPageStrict(len, p, total_count) ==
    len < PageLimit \/ p * PageLimit > total_count

\* line 275: the test that ends the loop
LastPage(len, p, total_count) ==
    len < PageLimit \/ p * PageLimit >= total_count

\* Variant: the handler returns what the pages before the failure gave
ResultKeepsPages(collected) == collected

\* lines 289-294: both handlers return pd.DataFrame()
ResultAfterException(collected) == <<>>

\* lines 217-232: the login; a response without accessToken, id or userType
\* returns an empty DataFrame, an exception goes to the handlers
FetchLogin ==
    /\ job = "importer" /\ ipc = "fetch" /\ fpc = "login"
    /\ \/ /\ auth' = "complete" /\ fpc' = "page"
          /\ UNCHANGED <<caught, fReturned>>
       \/ /\ auth' = "incomplete" /\ fpc' = "returned"
          /\ fReturned' = <<>>
          /\ UNCHANGED caught
       \/ /\ caught' = "login" /\ fpc' = "returned"
          /\ fReturned' = ResultAfterException(all_data)
          /\ UNCHANGED auth
    /\ UNCHANGED <<job, clock, dbVars, pullVars, brVars, loginVars, server, page_no, all_data, gets,
                   ipc, runNo, engine, connector, exitStatus, pending, raised, df,
                   idx, cvpc, meta, records, txn, sqlState, tableAtStart, prev>>

\* lines 248-287: one turn of the loop, the request of page page_no, and
\* after the last one the return of the frame or of an empty one
FetchPage ==
    /\ job = "importer" /\ ipc = "fetch" /\ fpc = "page"
    /\ \/ \E resp \in ResponsesOf(server, page_no) :
             LET collected == all_data \o PageData(page_no, resp.len)
             IN  /\ gets' = Append(gets, [pageNo |-> page_no, limit |-> PageLimit,
                                          response |-> resp])
                 /\ all_data' = collected
                 /\ IF LastPage(resp.len, page_no, TotalCount(resp))
                    THEN /\ fpc' = "returned" /\ fReturned' = collected
                         /\ UNCHANGED page_no
                    ELSE /\ page_no' = page_no + 1
                         /\ UNCHANGED <<fpc, fReturned>>
                 /\ UNCHANGED caught
       \/ /\ caught' = "report" /\ fpc' = "returned"
          /\ fReturned' = ResultAfterException(all_data)
          /\ gets' = Append(gets, [pageNo |-> page_no, limit |-> PageLimit,
                                   response |-> [len |-> 0, hasCount |-> FALSE,
                                                 getCount |-> 0]])
          /\ UNCHANGED <<page_no, all_data>>
    /\ UNCHANGED <<job, clock, dbVars, pullVars, brVars, loginVars, server, auth,
                   ipc, runNo, engine, connector, exitStatus, pending, raised, df,
                   idx, cvpc, meta, records, txn, sqlState, tableAtStart, prev>>

\* lines 466-470: main on an empty DataFrame
FetchEmpty ==
    /\ job = "importer" /\ ipc = "fetch" /\ fpc = "returned" /\ fReturned = <<>>
    /\ pending' = "exit0" /\ ipc' = "finally"
    /\ UNCHANGED <<job, clock, dbVars, pullVars, brVars, loginVars, fetchVars, caught,
                   runNo, engine, connector, exitStatus, raised, df,
                   idx, cvpc, meta, records, txn, sqlState, tableAtStart, prev>>

FetchNext ==
    \/ ImpLoadConfig \/ ImpGetDbEngine \/ ImpCreateTable
    \/ FetchLogin \/ FetchPage \/ FetchEmpty
    \/ ImpFinally

ImpNext ==
    \/ ImpLoadConfig \/ ImpGetDbEngine \/ ImpCreateTable \/ ImpFetch
    \/ ImpCvMeta \/ ImpCvFile \/ ImpCvUpload \/ ImpClean \/ ImpUpsert
    \/ ImpFinally \/ ImpNextRun

-----------------------------------------------------------------------------
(* pull_and_link_cvs.py *)

Procs == {"A", "B"}

GCS_BUCKET_NAME == "recruitment-engine-cvs-sp-260625"
GCS_CV_DIR == "candidate-cvs/"

\* the weeks DATES may name (lines 247-251), in the unit of created_on
Weeks == { [start |-> 0, end |-> 2999], [start |-> 3000, end |-> 5999] }
NoRange == [start |-> 0, end |-> -1]

NoCur == [cv_gcs_path |-> NA, cv_download_status |-> NA]

\* lines 297-299
NoCounts == [processed_count |-> 0, download_success_count |-> 0,
             download_fail_count |-> 0]

\* a statement the process executed: the SELECT (id NoId) or the UPDATE of a
\* row, and whether it went through
Statement(op, id, ok) == [op |-> op, id |-> id, ok |-> ok]

\* the values DATES may have: not set, and texts that are or are not "Week",
\* a week number and a year of four digits
DatesValues ==
    {NA, "Week", "Week2024", "Week12024", "Week22024", "Week542024",
     "Weekx2024", "Soon12024"}

\* int(): digits give the number, anything else ValueError
ValueError == NaT
ParseInt(s) == IF s = "" THEN ValueError ELSE ParseMs(s, 0)

\* dates_var[4:-4] and dates_var[-4:] of a text longer than 4
WeekPart(d) == IF Len(d) - 4 < 5 THEN "" ELSE SubSeq(d, 5, Len(d) - 4)
YearPart(d) == SubSeq(d, Len(d) - 3, Len(d))

\* the years near the epoch of the model that have an ISO week 53
LongYears == {2020, 2026}

\* datetime.fromisocalendar(year, week, day) raises ValueError for a year
\* outside 1..9999 and for a week the year does not have
HasIsoWeek(year, week_num) ==
    /\ year >= 1 /\ year <= 9999
    /\ week_num >= 1
    /\ week_num <= (IF year \in LongYears THEN 53 ELSE 52)

\* Monday 00:00 to Sunday 23:59:59.999999 of the week, in the unit of
\* created_on, counted from week 1 of 2024
WeekRange(year, week_num) ==
    [start |-> ((year - 2024) * 52 + week_num - 1) * 3000,
     end |-> ((year - 2024) * 52 + week_num) * 3000 - 1]

\* the times a run may start at: in the first week of 2024, and after every
\* week DatesValues names
Clocks == {1500, 9000}
AfterAllWeeks == CHOOSE c \in Clocks : \A d \in Clocks : d <= c

\* Variant: the end of the week is kept whatever the time is
EndOfWeek(rg, now) == rg

\* lines 250-251: an end_date_obj after now is replaced by now
ClampEnd(rg, now) == IF rg.end > now THEN [rg EXCEPT !.end = now] ELSE rg

\* Variant: the prefix of DATES is not looked at
StartsWithAnything(d) == TRUE

\* dates_var.startswith("Week")
StartsWithWeek(d) == Like(d, "Week")

\* lines 243-248 and 255-260: the week DATES names, NoRange when main
\* leaves with 1
ParseDates(d) ==
    IF d # NA /\ d # "" /\ StartsWithWeek(d) /\ Len(d) > 4
    THEN LET week_num == ParseInt(WeekPart(d))
             year == ParseInt(YearPart(d))
         IN  IF week_num = ValueError \/ year = ValueError
                  \/ ~HasIsoWeek(year, week_num)
             THEN NoRange
             ELSE WeekRange(year, week_num)
    ELSE NoRange

\* Variant: the query leaves out the rows a run has failed on before
EligibleNotYetTried(r, rg) ==
    /\ r.cv_id # NoId
    /\ r.cv_gcs_path = NA /\ ~Like(r.cv_download_status, "Failed:")
    /\ r.created_on >= rg.start
    /\ r.created_on <= rg.end

\* Variant: the query without its condition on cv_gcs_path and the status
EligibleAnyStatus(r, rg) ==
    /\ r.cv_id # NoId
    /\ r.created_on >= rg.start
    /\ r.created_on <= rg.end

\* WHERE of the candidate query, lines 270-274
Eligible(r, rg) ==
    /\ r.cv_id # NoId
    /\ (r.cv_gcs_path = NA \/ Like(r.cv_download_status, "Failed"))
    /\ r.created_on >= rg.start
    /\ r.created_on <= rg.end

\* ORDER BY created_on ASC: every order of the rows that respects created_on
Ordered(S) ==
    { s \in [1..Cardinality(S) -> S] :
        /\ \A i, j \in 1..Cardinality(S) : i # j => s[i] # s[j]
        /\ \A i, j \in 1..Cardinality(S) : i < j => s[i].created_on <= s[j].created_on }

\* lines 265-286
SelectCandidates(tbl, rg) == Ordered({ r \in tbl : Eligible(r, rg) })

\* upload_cv_to_gcs, lines 159-165, with the file name of lines 320-323
upload_cv_to_gcs(p, c) ==
    "gs://" \o GCS_BUCKET_NAME \o "/" \o GCS_CV_DIR \o c.job_ref_number \o "-" \o p

\* Variant: the UPDATE sets the path and leaves the status
UpdatePathOnly(tbl, id, c) ==
    { IF r.id = id THEN [r EXCEPT !.cv_gcs_path = c.cv_gcs_path] ELSE r : r \in tbl }

\* UPDATE ... SET cv_gcs_path, cv_download_status WHERE id = :candidate_id
UpdateCandidate(tbl, id, c) ==
    { IF r.id = id
      THEN [r EXCEPT !.cv_gcs_path = c.cv_gcs_path,
                     !.cv_download_status = c.cv_download_status]
      ELSE r : r \in tbl }

PullStart ==
    /\ ppc = [p \in Procs |-> IF p \in procs THEN "load_config" ELSE "none"]
    /\ pEngine = [p \in Procs |-> "none"]
    /\ pConnector = [p \in Procs |-> "open"]
    /\ pExit = [p \in Procs |-> "running"]
    /\ pPending = [p \in Procs |-> ""]
    /\ pRaised = [p \in Procs |-> ""]
    /\ range = [p \in Procs |-> NoRange]
    /\ cands = [p \in Procs |-> <<>>]
    /\ pidx = [p \in Procs |-> 0]
    /\ cur = [p \in Procs |-> NoCur]
    /\ transfers = [p \in Procs |-> {}]
    /\ pRunNo = 1
    /\ auth_token = [p \in Procs |-> NA]
    /\ dates_var = [p \in Procs |-> NA]
    /\ counts = [p \in Procs |-> NoCounts]
    /\ plog = [p \in Procs |-> <<>>]

\* the try block is left for `finally`: by sys.exit(code), or by an exception
\* that `except Exception` turns into sys.exit(1)
PullLeave(p, code, step) ==
    /\ pPending' = [pPending EXCEPT ![p] = code]
    /\ pRaised' = [pRaised EXCEPT ![p] = step]
    /\ ppc' = [ppc EXCEPT ![p] = "finally"]

\* line 230
PullLoadConfig(p) ==
    /\ job = "pull" /\ ppc[p] = "load_config"
    /\ \/ ppc' = [ppc EXCEPT ![p] = "get_db_engine"] /\ UNCHANGED <<pPending, pRaised>>
       \/ PullLeave(p, "exit1", "load_config")
    /\ UNCHANGED <<job, clock, dbVars, impVars, brVars, procs,
                   pRunNo, auth_token, dates_var, counts, plog, pEngine, pConnector, pExit,
                   range, cands, pidx, cur, transfers>>

\* line 231
PullGetDbEngine(p) ==
    /\ job = "pull" /\ ppc[p] = "get_db_engine"
    /\ \/ /\ pEngine' = [pEngine EXCEPT ![p] = "created"]
          /\ ppc' = [ppc EXCEPT ![p] = "token"]
          /\ UNCHANGED <<pPending, pRaised>>
       \/ PullLeave(p, "exit1", "get_db_engine") /\ UNCHANGED pEngine
    /\ UNCHANGED <<job, clock, dbVars, impVars, brVars, procs,
                   pRunNo, auth_token, dates_var, counts, plog, pConnector, pExit, range,
                   cands, pidx, cur, transfers>>

\* lines 233-236: no token, or get_api_auth_token raised
PullToken(p) ==
    /\ job = "pull" /\ ppc[p] = "token"
    /\ \E t \in {"token", NA} :
          /\ auth_token' = [auth_token EXCEPT ![p] = t]
          /\ IF t # NA
             THEN ppc' = [ppc EXCEPT ![p] = "dates"] /\ UNCHANGED <<pPending, pRaised>>
             ELSE PullLeave(p, "exit1", "token")
    /\ UNCHANGED <<job, clock, dbVars, impVars, brVars, procs,
                   pRunNo, dates_var, counts, plog, pEngine, pConnector, pExit,
                   range, cands, pidx, cur, transfers>>

\* lines 239-260
PullDates(p) ==
    /\ job = "pull" /\ ppc[p] = "dates"
    /\ \E d \in DatesValues :
          /\ dates_var' = [dates_var EXCEPT ![p] = d]
          /\ IF ParseDates(d) # NoRange
             THEN /\ range' = [range EXCEPT ![p] = ClampEnd(ParseDates(d), clock)]
                  /\ ppc' = [ppc EXCEPT ![p] = "query"]
                  /\ UNCHANGED <<pPending, pRaised>>
             ELSE PullLeave(p, "exit1", "dates") /\ UNCHANGED range
    /\ UNCHANGED <<job, clock, dbVars, impVars, brVars, procs,
                   pRunNo, auth_token, counts, plog, pEngine, pConnector, pExit,
                   cands, pidx, cur, transfers>>

\* lines 278-294: the query raises when there is no such table
PullQuery(p) ==
    /\ job = "pull" /\ ppc[p] = "query"
    /\ \/ \E s \in SelectCandidates(table, range[p]) :
             /\ tableOrigin # "absent"
             /\ cands' = [cands EXCEPT ![p] = s]
             /\ plog' = [plog EXCEPT ![p] = Append(@, Statement("SELECT", NoId, TRUE))]
             /\ IF s = <<>>
                THEN PullLeave(p, "exit0", "") /\ UNCHANGED pidx
                ELSE /\ pidx' = [pidx EXCEPT ![p] = 1]
                     /\ ppc' = [ppc EXCEPT ![p] = "download"]
                     /\ UNCHANGED <<pPending, pRaised>>
       \/ /\ PullLeave(p, "exit1", "query")
          /\ plog' = [plog EXCEPT ![p] = Append(@, Statement("SELECT", NoId, FALSE))]
          /\ UNCHANGED <<cands, pidx>>
    /\ UNCHANGED <<job, clock, dbVars, impVars, brVars, procs,
                   pRunNo, auth_token, dates_var, counts, pEngine, pConnector, pExit,
                   range, cur, transfers>>

\* lines 309-318, 332-334: download_cv_from_api gives the CV or None
PullDownload(p) ==
    /\ job = "pull" /\ ppc[p] = "download"
    /\ IF cands[p][pidx[p]].cv_id = NoId
       THEN /\ cur' = [cur EXCEPT ![p] = [cv_gcs_path |-> NA,
                                          cv_download_status |-> "No CV ID"]]
            /\ ppc' = [ppc EXCEPT ![p] = "update"]
            /\ UNCHANGED counts
       ELSE \/ /\ cur' = [cur EXCEPT ![p] = NoCur]
               /\ ppc' = [ppc EXCEPT ![p] = "upload"]
               /\ UNCHANGED counts
            \/ /\ cur' = [cur EXCEPT ![p] =
                             [cv_gcs_path |-> NA,
                              cv_download_status |-> "Failed: API Download"]]
               /\ counts' = [counts EXCEPT ![p].download_fail_count = @ + 1]
               /\ ppc' = [ppc EXCEPT ![p] = "update"]
    /\ UNCHANGED <<job, clock, dbVars, impVars, brVars, procs,
                   pRunNo, auth_token, dates_var, plog, pEngine, pConnector, pExit,
                   pPending, pRaised, range, cands, pidx, transfers>>

\* lines 319-331
PullUpload(p) ==
    /\ job = "pull" /\ ppc[p] = "upload"
    /\ \/ /\ cur' = [cur EXCEPT ![p] =
                        [cv_gcs_path |-> upload_cv_to_gcs(p, cands[p][pidx[p]]),
                         cv_download_status |-> "Downloaded"]]
          /\ transfers' = [transfers EXCEPT ![p] = @ \cup {cands[p][pidx[p]].id}]
          /\ counts' = [counts EXCEPT ![p].download_success_count = @ + 1]
       \/ /\ cur' = [cur EXCEPT ![p] = [cv_gcs_path |-> NA,
                                        cv_download_status |-> "Failed: GCS Upload Error"]]
          /\ counts' = [counts EXCEPT ![p].download_fail_count = @ + 1]
          /\ UNCHANGED transfers
    /\ ppc' = [ppc EXCEPT ![p] = "update"]
    /\ UNCHANGED <<job, clock, dbVars, impVars, brVars, procs,
                   pRunNo, auth_token, dates_var, plog, pEngine, pConnector, pExit,
                   pPending, pRaised, range, cands, pidx>>

\* Variant: an UPDATE that fails ends the job through the handler of main
PullUpdateHalts(p) ==
    /\ job = "pull" /\ ppc[p] = "update"
    /\ \/ /\ table' = UpdateCandidate(table, cands[p][pidx[p]].id, cur[p])
          /\ plog' = [plog EXCEPT ![p] =
                         Append(@, Statement("UPDATE", cands[p][pidx[p]].id, TRUE))]
          /\ counts' = [counts EXCEPT ![p].processed_count = @ + 1]
          /\ IF pidx[p] < Len(cands[p])
             THEN /\ pidx' = [pidx EXCEPT ![p] = @ + 1]
                  /\ ppc' = [ppc EXCEPT ![p] = "download"]
                  /\ UNCHANGED <<pPending, pRaised>>
             ELSE PullLeave(p, "exit0", "") /\ UNCHANGED pidx
       \/ /\ UNCHANGED <<table, counts, pidx>>
          /\ plog' = [plog EXCEPT ![p] =
                         Append(@, Statement("UPDATE", cands[p][pidx[p]].id, FALSE))]
          /\ PullLeave(p, "exit1", "update")
    /\ UNCHANGED <<job, clock, tableOrigin, impVars, brVars, procs,
                   pRunNo, auth_token, dates_var, pEngine, pConnector,
                   pExit, range, cands, cur, transfers>>

\* lines 337-362: the UPDATE commits, or it fails and the loop goes on
PullUpdate(p) ==
    /\ job = "pull" /\ ppc[p] = "update"
    /\ \E ok \in BOOLEAN :
          /\ table' = IF ok THEN UpdateCandidate(table, cands[p][pidx[p]].id, cur[p])
                      ELSE table
          /\ plog' = [plog EXCEPT ![p] =
                         Append(@, Statement("UPDATE", cands[p][pidx[p]].id, ok))]
    /\ counts' = [counts EXCEPT ![p].processed_count = @ + 1]
    /\ IF pidx[p] < Len(cands[p])
       THEN /\ pidx' = [pidx EXCEPT ![p] = @ + 1]
            /\ ppc' = [ppc EXCEPT ![p] = "download"]
            /\ UNCHANGED <<pPending, pRaised>>
       ELSE PullLeave(p, "exit0", "") /\ UNCHANGED pidx
    /\ UNCHANGED <<job, clock, tableOrigin, impVars, brVars, procs,
                   pRunNo, auth_token, dates_var, pEngine, pConnector,
                   pExit, range, cands, cur, transfers>>

\* lines 367-373, then the process ends
PullFinally(p) ==
    /\ job = "pull" /\ ppc[p] = "finally"
    /\ pEngine' = [pEngine EXCEPT ![p] = IF @ = "created" THEN "disposed" ELSE @]
    /\ pConnector' = [pConnector EXCEPT ![p] = "closed"]
    /\ pExit' = [pExit EXCEPT ![p] = pPending[p]]
    /\ ppc' = [ppc EXCEPT ![p] = "exited"]
    /\ UNCHANGED <<job, clock, dbVars, impVars, brVars, procs,
                   pRunNo, auth_token, dates_var, counts, plog, pPending, pRaised, range,
                   cands, pidx, cur, transfers>>

\* the scheduler starts the job again: a new process, nothing of the last
\* one is left but the table
PullNextRun(p) ==
    /\ job = "pull" /\ ppc[p] = "exited" /\ pRunNo < MaxRuns
    /\ pRunNo' = pRunNo + 1
    /\ ppc' = [ppc EXCEPT ![p] = "load_config"]
    /\ pEngine' = [pEngine EXCEPT ![p] = "none"]
    /\ pConnector' = [pConnector EXCEPT ![p] = "open"]
    /\ pExit' = [pExit EXCEPT ![p] = "running"]
    /\ pPending' = [pPending EXCEPT ![p] = ""]
    /\ pRaised' = [pRaised EXCEPT ![p] = ""]
    /\ range' = [range EXCEPT ![p] = NoRange]
    /\ cands' = [cands EXCEPT ![p] = <<>>]
    /\ pidx' = [pidx EXCEPT ![p] = 0]
    /\ cur' = [cur EXCEPT ![p] = NoCur]
    /\ transfers' = [transfers EXCEPT ![p] = {}]
    /\ auth_token' = [auth_token EXCEPT ![p] = NA]
    /\ dates_var' = [dates_var EXCEPT ![p] = NA]
    /\ counts' = [counts EXCEPT ![p] = NoCounts]
    /\ plog' = [plog EXCEPT ![p] = <<>>]
    /\ UNCHANGED <<job, clock, dbVars, impVars, brVars, procs>>

PullAgain == \E p \in procs : PullNextRun(p)

PullNext ==
    \/ \E p \in procs : PullLoadConfig(p)
    \/ \E p \in procs : PullGetDbEngine(p)
    \/ \E p \in procs : PullToken(p)
    \/ \E p \in procs : PullDates(p)
    \/ \E p \in procs : PullQuery(p)
    \/ \E p \in procs : PullDownload(p)
    \/ \E p \in procs : PullUpload(p)
    \/ \E p \in procs : PullUpdate(p)
    \/ \E p \in procs : PullFinally(p)

-----------------------------------------------------------------------------
(* The browser scripts *)

\* config.max_retries of hi_candidate_screenshot_job is at most this
MaxRetries == 2
\* rows get_yesterdays_cvs finds on the page
MaxCvs == 2

CvIds == {7, 8}
CvLists == UNION { [1..n -> CvIds] : n \in 0..MaxCvs }

\* perform_login has not been called
LoginStart ==
    /\ lpc = "get" /\ login_success = FALSE
    /\ lElem = 1 /\ lAttempt = 0 /\ lSel = 1
    /\ lLog = <<>> /\ lPending = "" /\ lResult = ""

BrStart ==
    /\ LoginStart
    /\ driver = "none" /\ browsers = 0 /\ quits = 0
    /\ bExit = "running" /\ bPending = "" /\ bRaised = ""
    /\ attempt = 0 /\ shots = <<>> /\ tmpFiles = 0
    /\ cvList = <<>> /\ cvIdx = 0 /\ cvReqs = <<>> /\ cvName = NA /\ cvUploads = <<>>

\* the try block is left for `finally` with a return value or exit code
BrLeave(code, step) ==
    /\ bPending' = code
    /\ bRaised' = step
    /\ bpc' = "finally"

\* the step went well
BrGo(next) == bpc' = next /\ UNCHANGED <<bPending, bRaised>>

brData == <<shots, tmpFiles, cvList, cvIdx, cvReqs, cvName, cvUploads>>

(* hi_candidate_screenshot_job.py *)

\* line 279
ShotValidate ==
    /\ job = "browser" /\ script = "shot" /\ bpc = "validate"
    /\ \/ BrGo("verify")
       \/ BrLeave("exit1", "validate")
    /\ UNCHANGED <<job, clock, dbVars, impVars, pullVars, script, driver, browsers, quits,
                   bExit, maxRetries, attempt, brData>>

\* lines 283-286: verify_chrome_installation
ShotVerify ==
    /\ job = "browser" /\ script = "shot" /\ bpc = "verify"
    /\ \/ BrGo("setup_driver")
       \/ BrLeave("exit1", "verify")
    /\ UNCHANGED <<job, clock, dbVars, impVars, pullVars, script, driver, browsers, quits,
                   bExit, maxRetries, attempt, brData>>

\* lines 178-183: an attempt of setup_driver failed
ShotAttemptFailed ==
    IF attempt = maxRetries - 1
    THEN BrLeave("exit1", "setup_driver") /\ UNCHANGED attempt
    ELSE \* time.sleep(config.retry_delay), then the next pass of the loop
         attempt' = attempt + 1 /\ UNCHANGED <<bpc, bPending, bRaised>>

\* line 288, setup_driver (lines 135-183): one pass of its loop
ShotSetupDriver ==
    /\ job = "browser" /\ script = "shot" /\ bpc = "setup_driver"
    /\ IF attempt >= maxRetries
       THEN \* range(max_retries) is used up: setup_driver returns None
            BrGo("login") /\ UNCHANGED <<driver, browsers, attempt>>
       ELSE \/ \* webdriver.Chrome raises
               ShotAttemptFailed /\ UNCHANGED <<driver, browsers>>
            \/ \* the browser starts, the check of about:blank fails
               /\ browsers' = browsers + 1
               /\ ShotAttemptFailed /\ UNCHANGED driver
            \/ /\ browsers' = browsers + 1
               /\ driver' = "set"
               /\ BrGo("login") /\ UNCHANGED attempt
    /\ UNCHANGED <<job, clock, dbVars, impVars, pullVars, script, quits, bExit, maxRetries,
                   brData>>

\* line 291
ShotLogin ==
    /\ job = "browser" /\ script = "shot" /\ bpc = "login"
    /\ \/ driver = "set" /\ BrGo("home")
       \/ BrLeave("exit1", "login")
    /\ UNCHANGED <<job, clock, dbVars, impVars, pullVars, script, driver, browsers, quits,
                   bExit, maxRetries, attempt, brData>>

\* how WebDriverWait(...).until ends: the element is there, TimeoutException,
\* or another exception
WaitOutcomes == {"found", "timeout", "error"}

\* the branch of the try statement around a wait that main is in
At(page, outcome) == page \o ":" \o outcome

\* the label of the screenshot each branch takes (lines 306, 309, 312 and
\* 327, 330, 333)
Label(page, outcome) ==
    IF page = "home"
    THEN CASE outcome = "found" -> "hireintelligence_home"
           [] outcome = "timeout" -> "hireintelligence_home_no_job_count"
           [] OTHER -> "hireintelligence_home_error"
    ELSE CASE outcome = "found" -> "hireintelligence_multi_candidate_admin"
           [] outcome = "timeout" -> "hireintelligence_multi_candidate_admin_timeout"
           [] OTHER -> "hireintelligence_multi_candidate_admin_error"

\* a wait that sends a timeout to the outer handler of main
ShotWaitOrFail(page) ==
    /\ bpc = page
    /\ \/ \E o \in WaitOutcomes \ {"timeout"} :
             bpc' = At(page, o) /\ UNCHANGED <<bPending, bRaised>>
       \/ BrLeave("exit1", "wait")

\* lines 302-304 and 323-325: the wait
ShotWait(page) ==
    /\ bpc = page
    /\ \E o \in WaitOutcomes : bpc' = At(page, o)
    /\ UNCHANGED <<bPending, bRaised>>

\* take_and_upload_screenshot (lines 265-273) in a branch: the screenshot is
\* stored; or it raises, in the try body for the handlers of the same
\* statement, in a handler for the outer handler of main
ShotTake(page, next) ==
    \E o \in WaitOutcomes :
       /\ bpc = At(page, o)
       /\ \/ shots' = Append(shots, Label(page, o)) /\ BrGo(next)
          \/ /\ o = "found"
             /\ \E h \in {"timeout", "error"} : bpc' = At(page, h)
             /\ UNCHANGED <<shots, bPending, bRaised>>
          \/ /\ o # "found"
             /\ BrLeave("exit1", "screenshot") /\ UNCHANGED shots

\* lines 295-304
ShotHome ==
    /\ job = "browser" /\ script = "shot"
    /\ ShotWait("home")
    /\ UNCHANGED <<job, clock, dbVars, impVars, pullVars, script, driver, browsers, quits,
                   bExit, maxRetries, attempt, brData>>

\* lines 306-312
ShotHomeTake ==
    /\ job = "browser" /\ script = "shot"
    /\ ShotTake("home", "admin_get")
    /\ UNCHANGED <<job, clock, dbVars, impVars, pullVars, script, driver, browsers, quits,
                   bExit, maxRetries, attempt, tmpFiles, cvList, cvIdx, cvReqs,
                   cvName, cvUploads>>

\* line 316
ShotAdminGet ==
    /\ job = "browser" /\ script = "shot" /\ bpc = "admin_get"
    /\ \/ BrGo("admin")
       \/ BrLeave("exit1", "admin_get")
    /\ UNCHANGED <<job, clock, dbVars, impVars, pullVars, script, driver, browsers, quits,
                   bExit, maxRetries, attempt, brData>>

\* lines 322-325
ShotAdmin ==
    /\ job = "browser" /\ script = "shot"
    /\ ShotWait("admin")
    /\ UNCHANGED <<job, clock, dbVars, impVars, pullVars, script, driver, browsers, quits,
                   bExit, maxRetries, attempt, brData>>

\* lines 327-333
ShotAdminTake ==
    /\ job = "browser" /\ script = "shot"
    /\ ShotTake("admin", "return")
    /\ UNCHANGED <<job, clock, dbVars, impVars, pullVars, script, driver, browsers, quits,
                   bExit, maxRetries, attempt, tmpFiles, cvList, cvIdx, cvReqs,
                   cvName, cvUploads>>

\* `finally` of a main that calls driver.quit() on the driver it holds:
\* cleanup_driver (lines 185-207) and hi_cv_downloader lines 395-402
QuitHeldDriver ==
    /\ quits' = IF driver = "set" THEN quits + 1 ELSE quits
    /\ bExit' = bPending
    /\ bpc' = "exited"

\* lines 335-336
ShotReturn ==
    /\ job = "browser" /\ script = "shot" /\ bpc = "return"
    /\ BrLeave("exit0", "")
    /\ UNCHANGED <<job, clock, dbVars, impVars, pullVars, script, driver, browsers, quits,
                   bExit, maxRetries, attempt, brData>>

ShotFinally ==
    /\ job = "browser" /\ script = "shot" /\ bpc = "finally"
    /\ QuitHeldDriver
    /\ UNCHANGED <<job, clock, dbVars, impVars, pullVars, script, driver, browsers, bPending,
                   bRaised, maxRetries, attempt, brData>>

ShotNext ==
    \/ ShotValidate \/ ShotVerify \/ ShotSetupDriver \/ ShotLogin \/ ShotHome
    \/ ShotHomeTake \/ ShotAdminGet \/ ShotAdmin \/ ShotAdminTake \/ ShotReturn
    \/ ShotFinally

(* hi_cv_downloader.py *)

\* the CandidateCombination responses download_cv tells apart: the status
\* code, whether "data" is there, and data.cvFileName
DlMetaResponses ==
    { [statusCode |-> "2000", data |-> TRUE, cv_file_name |-> "cv7.pdf"],
      [statusCode |-> "2000", data |-> TRUE, cv_file_name |-> NA],
      [statusCode |-> "2000", data |-> FALSE, cv_file_name |-> NA],
      [statusCode |-> "4004", data |-> TRUE, cv_file_name |-> "cv7.pdf"] }

DlMetaRaised == [statusCode |-> "raised", data |-> FALSE, cv_file_name |-> NA]

\* line 319
StatusOk(m) == m.statusCode = "2000"

\* upload_screenshot (lines 91-109): True with the screenshot stored, or False
UploadScreenshot(name) ==
    \/ shots' = Append(shots, name)
    \/ UNCHANGED shots

\* line 346
DlValidate ==
    /\ job = "browser" /\ script = "dl" /\ bpc = "validate"
    /\ \/ BrGo("setup_driver")
       \/ BrLeave("exit1", "validate")
    /\ UNCHANGED <<job, clock, dbVars, impVars, pullVars, script, driver, browsers, quits,
                   bExit, maxRetries, attempt, brData>>

\* line 349, setup_driver (lines 67-89)
DlSetupDriver ==
    /\ job = "browser" /\ script = "dl" /\ bpc = "setup_driver"
    /\ \/ \* webdriver.Chrome raises
          BrLeave("exit1", "setup_driver") /\ UNCHANGED <<driver, browsers>>
       \/ \* the browser starts, implicitly_wait raises
          /\ browsers' = browsers + 1
          /\ BrLeave("exit1", "setup_driver") /\ UNCHANGED driver
       \/ /\ browsers' = browsers + 1
          /\ driver' = "set"
          /\ BrGo("login")
    /\ UNCHANGED <<job, clock, dbVars, impVars, pullVars, script, quits, bExit, maxRetries,
                   attempt, brData>>

\* lines 356-360
DlDashboard ==
    /\ job = "browser" /\ script = "dl" /\ bpc = "dashboard"
    /\ \/ BrLeave("exit1", "dashboard") /\ UNCHANGED shots
       \/ UploadScreenshot("dashboard") /\ BrGo("admin")
    /\ UNCHANGED <<job, clock, dbVars, impVars, pullVars, script, driver, browsers, quits,
                   bExit, maxRetries, attempt, tmpFiles, cvList, cvIdx, cvReqs,
                   cvName, cvUploads>>

\* lines 384-389: the inner handler, then main returns 0
DlInnerExcept ==
    /\ UploadScreenshot("multi_candidate_admin_failed")
    /\ BrLeave("exit0", "")

\* lines 363-367
DlAdmin ==
    /\ job = "browser" /\ script = "dl" /\ bpc = "admin"
    /\ \/ DlInnerExcept
       \/ UploadScreenshot("multi_candidate_admin") /\ BrGo("cv_list")
    /\ UNCHANGED <<job, clock, dbVars, impVars, pullVars, script, driver, browsers, quits,
                   bExit, maxRetries, attempt, tmpFiles, cvList, cvIdx, cvReqs,
                   cvName, cvUploads>>

\* lines 369-371: get_yesterdays_cvs (lines 221-297) answers the rows it
\* found on the page, or [] after an error and a screenshot of it
DlCvList ==
    /\ job = "browser" /\ script = "dl" /\ bpc = "cv_list"
    /\ \E l \in CvLists :
          /\ cvList' = l
          /\ cvReqs' = [i \in 1..Len(l) |-> <<>>]
          /\ \/ UploadScreenshot("multi_candidate_admin")
             \/ l = <<>> /\ UploadScreenshot("cv_list_failed")
          /\ IF l = <<>>
             THEN BrLeave("exit0", "") /\ UNCHANGED cvIdx
             ELSE cvIdx' = 1 /\ BrGo("cv_meta")
    /\ UNCHANGED <<job, clock, dbVars, impVars, pullVars, script, driver, browsers, quits,
                   bExit, maxRetries, attempt, tmpFiles, cvName, cvUploads>>

\* a call of upload_file_to_gcs (lines 111-123) for a cv: True with the
\* file stored, False after any exception
Upload(cv, ok) == [cv |-> cv, ok |-> ok]

\* a loop that ends with the first cv that was not stored
DlLoopEnds ==
    /\ cvName' = NA
    /\ IF cvIdx < Len(cvList) /\ bpc = "cv_upload"
          /\ cvUploads'[Len(cvUploads')].ok
       THEN cvIdx' = cvIdx + 1 /\ BrGo("cv_meta")
       ELSE BrLeave("exit0", "") /\ UNCHANGED cvIdx

\* line 374: the next cv of the list, or the end of the loop
DlNextCv ==
    /\ cvName' = NA
    /\ IF cvIdx < Len(cvList)
       THEN cvIdx' = cvIdx + 1 /\ BrGo("cv_meta")
       ELSE BrLeave("exit0", "") /\ UNCHANGED cvIdx

\* download_cv lines 301-326: the metadata GET
DlCvMeta ==
    /\ job = "browser" /\ script = "dl" /\ bpc = "cv_meta"
    /\ \/ \* requests.get or raise_for_status or json() raises
          /\ cvReqs' = [cvReqs EXCEPT ![cvIdx] =
                          Append(@, Get("CandidateCombination", DlMetaRaised))]
          /\ DlNextCv
       \/ \E m \in DlMetaResponses :
             /\ cvReqs' = [cvReqs EXCEPT ![cvIdx] =
                             Append(@, Get("CandidateCombination", m))]
             /\ IF StatusOk(m) /\ m.data
                THEN cvName' = m.cv_file_name /\ BrGo("cv_file") /\ UNCHANGED cvIdx
                ELSE DlNextCv
    /\ UNCHANGED <<job, clock, dbVars, impVars, pullVars, script, driver, browsers, quits,
                   bExit, maxRetries, attempt, shots, tmpFiles, cvList, cvUploads>>

\* download_cv lines 328-341: the file GET
DlCvFile ==
    /\ job = "browser" /\ script = "dl" /\ bpc = "cv_file"
    /\ \/ /\ cvReqs' = [cvReqs EXCEPT ![cvIdx] = Append(@, Get("download", "raised"))]
          /\ DlNextCv
       \/ /\ cvReqs' = [cvReqs EXCEPT ![cvIdx] = Append(@, Get("download", "200"))]
          /\ BrGo("cv_upload") /\ UNCHANGED <<cvIdx, cvName>>
    /\ UNCHANGED <<job, clock, dbVars, impVars, pullVars, script, driver, browsers, quits,
                   bExit, maxRetries, attempt, shots, tmpFiles, cvList, cvUploads>>

\* lines 376-383: the extension of cv_data['file_name'], which raises
\* TypeError when the name is None, and the upload
DlCvUpload ==
    /\ job = "browser" /\ script = "dl" /\ bpc = "cv_upload"
    /\ IF cvName = NA
       THEN DlInnerExcept /\ UNCHANGED <<cvIdx, cvName, cvUploads>>
       ELSE /\ \E ok \in BOOLEAN : cvUploads' = Append(cvUploads, Upload(cvIdx, ok))
            /\ DlNextCv /\ UNCHANGED shots
    /\ UNCHANGED <<job, clock, dbVars, impVars, pullVars, script, driver, browsers, quits,
                   bExit, maxRetries, attempt, tmpFiles, cvList, cvReqs>>

\* lines 395-402
DlFinally ==
    /\ job = "browser" /\ script = "dl" /\ bpc = "finally"
    /\ QuitHeldDriver
    /\ UNCHANGED <<job, clock, dbVars, impVars, pullVars, script, driver, browsers, bPending,
                   bRaised, maxRetries, attempt, brData>>

\* ---- perform_login step by step (lines 125-219) ----

\* range(3) of the three search loops
FindAttempts == 3

\* the selectors of the email field, the password field and the submit
\* button, in the order the code tries them
Selectors ==
    << <<"input[name='email']", "input[type='email']",
         "//input[contains(@id, 'email')]">>,
       <<"input[name='password']", "//input[@type='password']">>,
       <<"button[type='submit']", "//button[contains(text(), 'Login')]">> >>

\* an entry of lLog: a page load or wait ("get", "form", "url"), the try of a
\* selector ("find"), send_keys or click on the element ("act"), the read of
\* page_source, or upload_screenshot under a name ("shot"), and whether
\* it went well
Did(ev, elem, att, sel, name, ok) ==
    [ev |-> ev, elem |-> elem, attempt |-> att, sel |-> sel, name |-> name,
     ok |-> ok]

Step(ev, ok) == Did(ev, 0, 0, 0, "", ok)
Shot(name, ok) == Did("shot", 0, 0, 0, name, ok)

\* the exception goes to `except Exception`
LoginRaise == lpc' = "except"

\* Variant: one attempt more before the search gives up
MayRetryOnceMore(att) == att < FindAttempts

\* `if attempt < 2`: sleep and go to the next attempt
MayRetry(att) == att < FindAttempts - 1

\* Variant: without a return in the finally block what the try or except
\* block left is what the call gives
ReturnOfBlocks(left, success, shotOk) == left

\* lines 216-219: the finally block returns, whatever was left
ReturnOfFinally(left, success, shotOk) ==
    IF success /\ shotOk THEN "True" ELSE "False"

loginFrame == <<job, clock, dbVars, pullVars, brVars, fetchVars,
                ipc, runNo, engine, connector, exitStatus, pending, raised, df,
                idx, cvpc, meta, records, txn, caught, sqlState, tableAtStart, prev>>

InLogin(at) == job = "browser" /\ script = "dl" /\ bpc = "login" /\ lpc = at

\* lines 129-132: the login page and its screenshot
LoginGet ==
    /\ InLogin("get")
    /\ \/ /\ \E ok \in BOOLEAN :
                lLog' = lLog \o <<Step("get", TRUE), Shot("login_page", ok)>>
          /\ lpc' = "form"
       \/ lLog' = Append(lLog, Step("get", FALSE)) /\ LoginRaise
    /\ UNCHANGED <<loginFrame, login_success, lElem, lAttempt, lSel, lPending, lResult>>

\* lines 135-138: the wait for the form
LoginForm ==
    /\ InLogin("form")
    /\ \/ lLog' = Append(lLog, Step("form", TRUE)) /\ lpc' = "find"
       \/ lLog' = Append(lLog, Step("form", FALSE)) /\ LoginRaise
    /\ UNCHANGED <<loginFrame, login_success, lElem, lAttempt, lSel, lPending, lResult>>

\* lines 141-161, 165-179, 183-197: one selector of the element is tried;
\* a match ends the search, no match goes to the next selector, after the
\* last one to the next attempt, after the last attempt the exception is
\* raised again
LoginFind ==
    /\ InLogin("find")
    /\ \E found \in BOOLEAN :
          /\ lLog' = Append(lLog, Did("find", lElem, lAttempt, lSel,
                                      Selectors[lElem][lSel], found))
          /\ IF found
             THEN lpc' = "act" /\ UNCHANGED <<lAttempt, lSel>>
             ELSE IF lSel < Len(Selectors[lElem])
             THEN lSel' = lSel + 1 /\ UNCHANGED <<lpc, lAttempt>>
             ELSE IF MayRetry(lAttempt)
             THEN lAttempt' = lAttempt + 1 /\ lSel' = 1 /\ UNCHANGED lpc
             ELSE LoginRaise /\ UNCHANGED <<lAttempt, lSel>>
    /\ UNCHANGED <<loginFrame, login_success, lElem, lPending, lResult>>

\* lines 162, 180, 198: send_keys on the field, click on the button
LoginAct ==
    /\ InLogin("act")
    /\ \/ /\ lLog' = Append(lLog, Did("act", lElem, 0, 0, "", TRUE))
          /\ IF lElem < Len(Selectors)
             THEN lElem' = lElem + 1 /\ lAttempt' = 0 /\ lSel' = 1 /\ lpc' = "find"
             ELSE lpc' = "url" /\ UNCHANGED <<lElem, lAttempt, lSel>>
       \/ /\ lLog' = Append(lLog, Did("act", lElem, 0, 0, "", FALSE))
          /\ LoginRaise /\ UNCHANGED <<lElem, lAttempt, lSel>>
    /\ UNCHANGED <<loginFrame, login_success, lPending, lResult>>

\* lines 202-208: the wait for the URL, the screenshot, `return True`
LoginUrl ==
    /\ InLogin("url")
    /\ \/ /\ \E ok \in BOOLEAN :
                lLog' = lLog \o <<Step("url", TRUE), Shot("login_success", ok)>>
          /\ login_success' = TRUE
          /\ lPending' = "True"
          /\ lpc' = "finally"
       \/ /\ lLog' = Append(lLog, Step("url", FALSE))
          /\ LoginRaise /\ UNCHANGED <<login_success, lPending>>
    /\ UNCHANGED <<loginFrame, lElem, lAttempt, lSel, lResult>>

\* lines 210-215: the handler reads page_source, which raises when the
\* browser is gone, uploads a screenshot and has `return False`
LoginExcept ==
    /\ InLogin("except")
    /\ \/ /\ \E ok \in BOOLEAN :
                lLog' = lLog \o <<Step("page_source", TRUE), Shot("login_failed", ok)>>
          /\ lPending' = "False"
       \/ /\ lLog' = Append(lLog, Step("page_source", FALSE))
          /\ lPending' = "raised"
    /\ lpc' = "finally"
    /\ UNCHANGED <<loginFrame, login_success, lElem, lAttempt, lSel, lResult>>

\* lines 216-219: the screenshot is taken only after a login that succeeded
LoginFinally ==
    /\ InLogin("finally")
    /\ IF login_success
       THEN \E ok \in BOOLEAN :
               /\ lLog' = Append(lLog, Shot("login_success", ok))
               /\ lResult' = ReturnOfFinally(lPending, login_success, ok)
       ELSE /\ lResult' = ReturnOfFinally(lPending, login_success, FALSE)
            /\ UNCHANGED lLog
    /\ lpc' = "returned"
    /\ UNCHANGED <<loginFrame, login_success, lElem, lAttempt, lSel, lPending>>

LoginNext ==
    \/ LoginGet \/ LoginForm \/ LoginFind \/ LoginAct \/ LoginUrl
    \/ LoginExcept \/ LoginFinally

\* what main leaves alone of the importer's and the fetch's state
notLogin == <<ipc, runNo, engine, connector, exitStatus, pending, raised, df, idx,
              cvpc, meta, records, txn, caught, sqlState, tableAtStart, prev,
              fetchVars>>

\* perform_login as one step of main: it ends in its finally block, with
\* or without login_success and with or without the last screenshot stored
LoginCall ==
    /\ \E success, shotOk \in BOOLEAN :
          /\ login_success' = success
          /\ lResult' = ReturnOfFinally("", success, shotOk)
    /\ lpc' = "returned"
    /\ UNCHANGED <<lElem, lAttempt, lSel, lLog, lPending>>

\* a main that gives up when perform_login answers False
DlLoginOrStop ==
    /\ job = "browser" /\ script = "dl" /\ bpc = "login" /\ lpc = "get"
    /\ LoginCall
    /\ IF lResult' = "True" THEN BrGo("dashboard") ELSE BrLeave("exit1", "login")
    /\ UNCHANGED <<job, clock, dbVars, notLogin, pullVars, script, driver, browsers, quits,
                   bExit, maxRetries, attempt, brData>>

\* lines 351-354: perform_login answers True or False and main goes on
\* either way; its screenshots are not kept in shots
DlLogin ==
    /\ job = "browser" /\ script = "dl" /\ bpc = "login" /\ lpc = "get"
    /\ LoginCall
    /\ BrGo("dashboard")
    /\ UNCHANGED <<job, clock, dbVars, notLogin, pullVars, script, driver, browsers, quits,
                   bExit, maxRetries, attempt, brData>>

DlNext ==
    \/ DlValidate \/ DlSetupDriver \/ DlLogin \/ DlDashboard \/ DlAdmin \/ DlCvList
    \/ DlCvMeta \/ DlCvFile \/ DlCvUpload \/ DlFinally

(* multi_candidate_screenshot.py *)

\* line 207
MultiLoadConfig ==
    /\ job = "browser" /\ script = "multi" /\ bpc = "load_config"
    /\ \/ BrGo("init_driver")
       \/ BrLeave("exit1", "load_config")
    /\ UNCHANGED <<job, clock, dbVars, impVars, pullVars, script, driver, browsers, quits,
                   bExit, maxRetries, attempt, brData>>

\* line 210, initialize_webdriver (lines 99-120): sys.exit(1) when Chrome
\* does not start
MultiInitDriver ==
    /\ job = "browser" /\ script = "multi" /\ bpc = "init_driver"
    /\ \/ BrLeave("exit1", "init_driver") /\ UNCHANGED <<driver, browsers>>
       \/ /\ browsers' = browsers + 1
          /\ driver' = "set"
          /\ BrGo("login")
    /\ UNCHANGED <<job, clock, dbVars, impVars, pullVars, script, quits, bExit, maxRetries,
                   attempt, brData>>

\* line 213
MultiLogin ==
    /\ job = "browser" /\ script = "multi" /\ bpc = "login"
    /\ \/ BrGo("capture")
       \/ BrLeave("exit1", "login")
    /\ UNCHANGED <<job, clock, dbVars, impVars, pullVars, script, driver, browsers, quits,
                   bExit, maxRetries, attempt, brData>>

\* line 216, capture_multi_candidate_screenshot (lines 156-201)
MultiCapture ==
    /\ job = "browser" /\ script = "multi" /\ bpc = "capture"
    /\ \/ \* the page or the wait fails, nothing was saved
          BrLeave("exit1", "screenshot") /\ UNCHANGED <<shots, tmpFiles>>
       \/ \* the upload fails after the file was saved
          /\ tmpFiles' = tmpFiles + 1
          /\ BrLeave("exit1", "screenshot") /\ UNCHANGED shots
       \/ /\ shots' = Append(shots, "multi_candidate_admin")
          /\ BrLeave("exit0", "") /\ UNCHANGED tmpFiles
    /\ UNCHANGED <<job, clock, dbVars, impVars, pullVars, script, driver, browsers, quits,
                   bExit, maxRetries, attempt, cvList, cvIdx, cvReqs, cvName, cvUploads>>

\* a `finally` whose driver.quit() is not guarded: an exception it raises
\* ends the process with status 1 (multi_candidate_screenshot lines 223-226,
\* scrape_cv_links lines 111-122)
QuitUnguarded ==
    /\ bpc' = "exited"
    /\ IF driver = "set"
       THEN /\ quits' = quits + 1
            /\ \/ bExit' = bPending
               \/ bExit' = "exit1"
       ELSE /\ UNCHANGED quits
            /\ bExit' = bPending

MultiFinally ==
    /\ job = "browser" /\ script = "multi" /\ bpc = "finally"
    /\ QuitUnguarded
    /\ UNCHANGED <<job, clock, dbVars, impVars, pullVars, script, driver, browsers, bPending,
                   bRaised, maxRetries, attempt, brData>>

MultiNext ==
    MultiLoadConfig \/ MultiInitDriver \/ MultiLogin \/ MultiCapture \/ MultiFinally

(* scrape_cv_links.py *)

\* lines 29-34: sys.exit(1) ahead of the try block
ScrapeEnv ==
    /\ job = "browser" /\ script = "scrape" /\ bpc = "env"
    /\ \/ BrGo("start_chrome") /\ UNCHANGED bExit
       \/ /\ bpc' = "exited" /\ bExit' = "exit1"
          /\ bRaised' = "env" /\ UNCHANGED bPending
    /\ UNCHANGED <<job, clock, dbVars, impVars, pullVars, script, driver, browsers, quits,
                   maxRetries, attempt, brData>>

\* an exception inside the try block reaches the handler of lines 102-110
ScrapeRaise(step) ==
    /\ bRaised' = step
    /\ bpc' = "except"
    /\ UNCHANGED bPending

\* lines 46-48
ScrapeStartChrome ==
    /\ job = "browser" /\ script = "scrape" /\ bpc = "start_chrome"
    /\ \/ ScrapeRaise("start_chrome") /\ UNCHANGED <<driver, browsers>>
       \/ /\ browsers' = browsers + 1
          /\ driver' = "set"
          /\ BrGo("login")
    /\ UNCHANGED <<job, clock, dbVars, impVars, pullVars, script, quits, bExit, maxRetries,
                   attempt, brData>>

\* lines 50-60
ScrapeLogin ==
    /\ job = "browser" /\ script = "scrape" /\ bpc = "login"
    /\ \/ BrGo("dashboard")
       \/ ScrapeRaise("login")
    /\ UNCHANGED <<job, clock, dbVars, impVars, pullVars, script, driver, browsers, quits,
                   bExit, maxRetries, attempt, brData>>

\* a screenshot through a NamedTemporaryFile(delete=False): stored and the
\* file removed, or the file left behind by an exception
TmpScreenshot(name, stored) ==
    IF stored
    THEN shots' = Append(shots, name) /\ UNCHANGED tmpFiles
    ELSE tmpFiles' = tmpFiles + 1 /\ UNCHANGED shots

\* lines 63-88
ScrapeDashboard ==
    /\ job = "browser" /\ script = "scrape" /\ bpc = "dashboard"
    /\ \/ TmpScreenshot("debug/dashboard_loaded.png", TRUE) /\ BrGo("admin")
       \/ TmpScreenshot("debug/dashboard_loaded.png", FALSE) /\ ScrapeRaise("screenshot")
       \/ \E stored \in BOOLEAN :
             /\ TmpScreenshot("debug/login_failed_dashboard_timeout.png", stored)
             /\ ScrapeRaise("login")
    /\ UNCHANGED <<job, clock, dbVars, impVars, pullVars, script, driver, browsers, quits,
                   bExit, maxRetries, attempt, cvList, cvIdx, cvReqs, cvName, cvUploads>>

\* lines 90-98
ScrapeAdmin ==
    /\ job = "browser" /\ script = "scrape" /\ bpc = "admin"
    /\ \/ TmpScreenshot("debug/multi_candidate_admin.png", TRUE) /\ BrLeave("exit0", "")
       \/ TmpScreenshot("debug/multi_candidate_admin.png", FALSE)
          /\ ScrapeRaise("screenshot")
       \/ ScrapeRaise("screenshot") /\ UNCHANGED <<shots, tmpFiles>>
    /\ UNCHANGED <<job, clock, dbVars, impVars, pullVars, script, driver, browsers, quits,
                   bExit, maxRetries, attempt, cvList, cvIdx, cvReqs, cvName, cvUploads>>

\* lines 102-110: a screenshot of the error when there is a driver, then the
\* exception goes on to __main__, which exits with 1 (lines 116-122)
ScrapeExcept ==
    /\ job = "browser" /\ script = "scrape" /\ bpc = "except"
    /\ IF driver = "set"
       THEN \E stored \in BOOLEAN : TmpScreenshot("debug/error.png", stored)
       ELSE UNCHANGED <<shots, tmpFiles>>
    /\ BrLeave("exit1", bRaised)
    /\ UNCHANGED <<job, clock, dbVars, impVars, pullVars, script, driver, browsers, quits,
                   bExit, maxRetries, attempt, cvList, cvIdx, cvReqs, cvName, cvUploads>>

ScrapeFinally ==
    /\ job = "browser" /\ script = "scrape" /\ bpc = "finally"
    /\ QuitUnguarded
    /\ UNCHANGED <<job, clock, dbVars, impVars, pullVars, script, driver, browsers, bPending,
                   bRaised, maxRetries, attempt, brData>>

ScrapeNext ==
    \/ ScrapeEnv \/ ScrapeStartChrome \/ ScrapeLogin \/ ScrapeDashboard \/ ScrapeAdmin
    \/ ScrapeExcept \/ ScrapeFinally

-----------------------------------------------------------------------------
(* The jobs as the scheduler runs them *)

vars == <<job, dbVars, impVars, pullVars, brVars>>

\* pull_and_link_cvs is started on the table the importer left
PullAfterImport ==
    /\ job = "importer" /\ ipc = "exited"
    /\ job' = "pull"
    /\ ImpFresh /\ runNo' = 1 /\ prev' = NoPrev
    /\ UNCHANGED <<clock, dbVars, pullVars, brVars, fetchVars, loginVars>>

FirstStep == [shot |-> "validate", dl |-> "validate", multi |-> "load_config",
              scrape |-> "env", none |-> "none"]

NoBrowserScript == script = "none" /\ bpc = "none" /\ maxRetries = 0 /\ BrStart

\* One job on its own: the importer, run again and again and followed by
\* pull_and_link_cvs, or one of the browser scripts
Init ==
    /\ job \in {"importer", "browser"}
    /\ table = {}
    /\ tableOrigin \in IF job = "importer" THEN {"absent", "preexisting"} ELSE {"absent"}
    /\ server = NoServer
    /\ clock = AfterAllWeeks
    /\ ImpStart
    /\ procs = {"A"} /\ PullStart
    /\ IF job = "browser"
       THEN /\ script \in {"shot", "dl", "multi", "scrape"}
            /\ bpc = FirstStep[script]
            /\ maxRetries \in IF script = "shot" THEN 0..MaxRetries ELSE {0}
            /\ BrStart
       ELSE NoBrowserScript

Next ==
    \/ ImpNext \/ PullAfterImport \/ PullNext \/ PullAgain
    \/ ShotNext \/ DlNext \/ MultiNext \/ ScrapeNext

Spec == Init /\ [][Next]_vars

\* rows the importer and pull_and_link_cvs write, found by a run of
\* pull_and_link_cvs in a table that has the unique index
MaxRows == 2

SeedRows ==
    << [email |-> "ab@x", job_ref_number |-> "j1", created_on |-> 1000,
        cv_id |-> 7, user_id |-> 5,
        cv_gcs_path |-> NA, cv_download_status |-> "Failed"],
       [email |-> "cd@x", job_ref_number |-> "j1", created_on |-> 2000,
        cv_id |-> 8, user_id |-> 5,
        cv_gcs_path |-> NA, cv_download_status |-> "Failed: API Download"],
       [email |-> "ef@x", job_ref_number |-> "j1", created_on |-> 1000,
        cv_id |-> 9, user_id |-> 5,
        cv_gcs_path |-> upload_to_gcs(TRUE, "cv9.pdf"),
        cv_download_status |-> "Success"],
       [email |-> "<na>", job_ref_number |-> "j1", created_on |-> 2000,
        cv_id |-> NoId, user_id |-> 5,
        cv_gcs_path |-> NA, cv_download_status |-> "Failed - Missing CV ID or User ID"],
       [email |-> "gh@x", job_ref_number |-> "j2", created_on |-> 4000,
        cv_id |-> 7, user_id |-> NoId,
        cv_gcs_path |-> NA, cv_download_status |-> "Failed - Missing CV ID or User ID"] >>

RECURSIVE InsertAll(_, _)
InsertAll(tbl, recs) ==
    IF recs = <<>> THEN tbl ELSE InsertAll(InsertRow(tbl, Head(recs)), Tail(recs))

SeedTables ==
    { InsertAll({}, [i \in 1..Len(pick) |-> SeedRows[pick[i]]]) :
        pick \in { q \in UNION { [1..n -> 1..Len(SeedRows)] : n \in 0..MaxRows } :
                     \A i, j \in 1..Len(q) : i < j => q[i] < q[j] } }

\* Two runs of pull_and_link_cvs started by the scheduler at about the same time
InitPull ==
    /\ job = "pull"
    /\ tableOrigin = "preexisting"
    /\ table \in SeedTables
    /\ server = NoServer
    /\ clock \in Clocks
    /\ ImpStart
    /\ procs = Procs /\ PullStart
    /\ NoBrowserScript

SpecPull == InitPull /\ [][PullNext]_vars

\* A row the importer inserted on an earlier day, with the key of the first
\* of ApiRecords, to which the mailing that the email_ columns are for has
\* written since
MailedRow ==
    [id |-> 1, email |-> "ab@x", job_ref_number |-> "j1", created_on |-> 1000,
     cv_id |-> 7, user_id |-> 5,
     cv_gcs_path |-> NA, cv_download_status |-> "Failed",
     etl_load_timestamp |-> "earlier", email_status |-> "sent"]

\* The importer on a table that has the unique index and that row
InitMailed ==
    /\ job = "importer"
    /\ tableOrigin = "preexisting"
    /\ table = {MailedRow}
    /\ server = NoServer
    /\ clock = AfterAllWeeks
    /\ ImpStart
    /\ procs = {"A"} /\ PullStart
    /\ NoBrowserScript

SpecMailed == InitMailed /\ [][ImpNext]_vars

\* The importer up to the return of fetch_data_from_api, with every server
InitFetch ==
    /\ job = "importer"
    /\ table = {}
    /\ tableOrigin \in {"absent", "preexisting"}
    /\ server \in Servers
    /\ clock = AfterAllWeeks
    /\ ImpStart
    /\ procs = {"A"} /\ PullStart
    /\ NoBrowserScript

SpecFetch == InitFetch /\ [][FetchNext]_vars

\* the frame of batch b after a CV loop in which no metadata had a file name
AfterLoop(b) ==
    [i \in 1..Len(b) |->
        [NewFrame(b)[i] EXCEPT
            !.cv_download_status =
                IF b[i].cv_id = NoId \/ b[i].user_id = NoId
                THEN "Failed - Missing CV ID or User ID"
                ELSE "Failed - No file name",
            !.reqs = IF b[i].cv_id = NoId \/ b[i].user_id = NoId THEN <<>>
                     ELSE <<Get("CandidateCombination",
                                [status |-> "200", file_name |-> "",
                                 cv_file_name |-> "cv7.pdf"])>>]]

\* insert_candidate_data from its cleaning on, for every batch, on an empty
\* table that has the unique index
InitClean ==
    /\ job = "importer"
    /\ tableOrigin = "preexisting"
    /\ table = {}
    /\ server = NoServer
    /\ clock = AfterAllWeeks
    /\ ipc = "clean" /\ runNo = 1 /\ engine = "created" /\ connector = "open"
    /\ exitStatus = "running" /\ pending = "" /\ raised = ""
    /\ \E b \in Batches \ {<<>>} : df = AfterLoop(b)
    /\ idx = 0 /\ cvpc = "meta" /\ meta = NoMeta /\ records = <<>>
    /\ txn = {} /\ caught = "" /\ sqlState = "" /\ tableAtStart = table
    /\ prev = NoPrev
    /\ fpc = "login" /\ auth = "" /\ page_no = 1 /\ all_data = <<>>
    /\ gets = <<>> /\ fReturned = <<>>
    /\ procs = {"A"} /\ PullStart
    /\ NoBrowserScript

CleanNext == ImpClean \/ ImpUpsert \/ ImpFinally

SpecClean == InitClean /\ [][CleanNext]_vars

\* One of the four browser scripts, run once
InitBrowser == Init /\ job = "browser"

BrowserNext == ShotNext \/ DlNext \/ MultiNext \/ ScrapeNext

SpecBrowser == InitBrowser /\ [][BrowserNext]_vars

\* hi_cv_downloader.main at its call of perform_login (line 351), with the
\* browser setup_driver started
InitLogin ==
    /\ job = "browser"
    /\ table = {} /\ tableOrigin = "absent"
    /\ server = NoServer
    /\ clock = AfterAllWeeks
    /\ ImpStart
    /\ procs = {"A"} /\ PullStart
    /\ script = "dl" /\ bpc = "login" /\ maxRetries = 0
    /\ LoginStart
    /\ driver = "set" /\ browsers = 1 /\ quits = 0
    /\ bExit = "running" /\ bPending = "" /\ bRaised = ""
    /\ attempt = 0 /\ shots = <<>> /\ tmpFiles = 0
    /\ cvList = <<>> /\ cvIdx = 0 /\ cvReqs = <<>> /\ cvName = NA /\ cvUploads = <<>>

SpecLogin == InitLogin /\ [][LoginNext]_vars

-----------------------------------------------------------------------------
(* Properties *)

ImporterRuns == job = "importer"

C2_Idempotent ==
    (ImporterRuns /\ ipc = "exited" /\ prev # NoPrev) => table = prev.table

C2_SecondRunUpserted ==
    /\ ImporterRuns /\ ipc = "exited" /\ runNo = 2 /\ prev # NoPrev
    /\ raised = "" /\ Len(records) = 2 /\ Cardinality(table) = 2
    /\ \E r \in table : r.cv_download_status = "Success"

\* the status and the path of a batch row agree
RowSettled(row) ==
    /\ row.cv_download_status # NA
    /\ row.cv_download_status = "Success" <=> row.cv_gcs_path # NA
    /\ row.cv_gcs_path = NA => Like(row.cv_download_status, "Failed")

\* C3: every row of the batch the CV loop is done with has a status, the
\* status is "Success" exactly when cv_gcs_path is not null, and a row without
\* a path has a status that begins with "Failed".
C3_StatusMatchesPath ==
    ImporterRuns =>
        \A i \in 1..Len(df) :
            (ipc = "cv_loop" => i < idx) => RowSettled(df[i])

C3_LoopDoneBothOutcomes ==
    /\ ImporterRuns /\ ipc = "clean" /\ Len(df) = 2
    /\ df[1].cv_download_status = "Success"
    /\ df[2].cv_download_status = "Failed"

\* the requests of one candidate in the importer: the metadata GET, then at
\* most one file GET, and that one only after metadata with both names
ImporterGetsInOrder(q) ==
    /\ Len(q) <= 2
    /\ Len(q) >= 1 => q[1].endpoint = "CandidateCombination"
    /\ Len(q) = 2 =>
          /\ q[2].endpoint = "download"
          /\ q[1].response.status = "200"
          /\ q[1].response.file_name \notin {NA, ""}
          /\ q[1].response.cv_file_name \notin {NA, ""}

\* the same in hi_cv_downloader, where statusCode "2000" lets the file GET go
DownloaderGetsInOrder(q) ==
    /\ Len(q) <= 2
    /\ Len(q) >= 1 => q[1].endpoint = "CandidateCombination"
    /\ Len(q) = 2 =>
          /\ q[2].endpoint = "download"
          /\ q[1].response.statusCode = "2000"

\* C4: for every candidate at most one metadata GET and at most one file GET
\* are sent, in this order, and the file GET only after the metadata GET came
\* back usable (both file names in the importer, statusCode "2000" in
\* hi_cv_downloader).
C4_TwoGetsInOrder ==
    /\ \A i \in 1..Len(df) : ImporterGetsInOrder(df[i].reqs)
    /\ \A i \in 1..Len(cvReqs) : DownloaderGetsInOrder(cvReqs[i])

C4_FileAfterMetadata ==
    /\ ImporterRuns /\ ipc = "clean" /\ Len(df) = 2
    /\ Len(df[1].reqs) = 2
    /\ Len(df[2].reqs) = 1 /\ df[2].reqs[1].response.file_name = ""

\* C5: a browser script that created a browser has called driver.quit by the
\* time it has exited.
C5_BrowserClosedOnExit ==
    (job = "browser" /\ bpc = "exited" /\ browsers > 0) => quits > 0

\* a database script that has exited holds no engine that is not disposed,
\* and closed the connector if it had an engine
CleanedUp(pc, eng, conn) ==
    pc = "exited" => eng # "created" /\ (eng = "disposed" => conn = "closed")

ExitCodes == {"exit0", "exit1"}

\* C7: a script that has exited did so with status 0 or 1, and with 1 when an
\* exception of configuration loading, engine or browser setup, login, the
\* upsert or the screenshot step was raised in the run.
C7_FailureGivesExitOne ==
    /\ (ImporterRuns /\ ipc = "exited") =>
          /\ exitStatus \in ExitCodes
          /\ (raised # "" \/ caught = "login") => exitStatus = "exit1"
    /\ job = "pull" =>
          \A p \in procs : ppc[p] = "exited" =>
              /\ pExit[p] \in ExitCodes
              /\ pRaised[p] # "" => pExit[p] = "exit1"
    /\ (job = "browser" /\ script \in {"multi", "scrape"} /\ bpc = "exited") =>
          /\ bExit \in ExitCodes
          /\ bRaised # "" => bExit = "exit1"

\* ids of the rows the query of p gave
Selected(p) == { cands[p][i].id : i \in 1..Len(cands[p]) }

\* p got the answer of its query
HasQueried(p) ==
    \/ ppc[p] \in {"download", "upload", "update"}
    \/ ppc[p] \in {"finally", "exited"} /\ pRaised[p] = "" /\ range[p] \in Weeks

\* p is at its first candidate: it has executed no UPDATE
AtFirstCandidate(p) == ppc[p] \in {"download", "upload", "update"} /\ pidx[p] = 1

PathIffDownloaded ==
    \A r \in table :
        r.id \in Selected("A") \cup Selected("B") =>
            (r.cv_gcs_path # NA <=> r.cv_download_status = "Downloaded")

\* C8 as stated: two runs with the same DATES that both got the answer of
\* their query selected the same rows, and every selected row has a
\* cv_gcs_path exactly when its status is "Downloaded".
C8_OverlappingRunsSelectSame ==
    /\ PathIffDownloaded
    /\ (HasQueried("A") /\ HasQueried("B") /\ range["A"] = range["B"]) =>
          Selected("A") = Selected("B")

\* C8 amended: two runs with the same DATES select the same rows when both
\* queried before either executed an UPDATE; in every interleaving every
\* selected row has a cv_gcs_path exactly when its status is "Downloaded".
C8_SelectSameBeforeUpdates ==
    /\ PathIffDownloaded
    /\ (AtFirstCandidate("A") /\ AtFirstCandidate("B") /\ range["A"] = range["B"]) =>
          Selected("A") = Selected("B")

C8_BothTransferredSameRow ==
    /\ job = "pull" /\ ppc["A"] = "exited" /\ ppc["B"] = "exited"
    /\ \E r \in table :
          /\ r.id \in transfers["A"] \cap transfers["B"]
          /\ r.cv_download_status = "Downloaded"

\* the query of the run was answered and the run has executed no UPDATE yet
JustQueried(p) ==
    \/ AtFirstCandidate(p) /\ ppc[p] = "download"
    \/ ppc[p] = "finally" /\ pRaised[p] = "" /\ cands[p] = <<>>

InRange(r, rg) == r.created_on >= rg.start /\ r.created_on <= rg.end

\* C9: of the rows the importer left, a run of pull_and_link_cvs selects none
\* with status "Success" and a cv_gcs_path, and every one that has a cv_id,
\* a created_on in the range of the run, and a status that starts with "Failed"
\* or no cv_gcs_path.
C9_SuccessSkippedFailedSelected ==
    (job = "pull" /\ procs = {"A"} /\ JustQueried("A")) =>
        \A r \in table :
            /\ (r.cv_download_status = "Success" /\ r.cv_gcs_path # NA)
                  => r.id \notin Selected("A")
            /\ (/\ r.cv_id # NoId
                /\ Like(r.cv_download_status, "Failed") \/ r.cv_gcs_path = NA
                /\ InRange(r, range["A"]))
                  => r.id \in Selected("A")

C9_OneSkippedOneSelected ==
    /\ job = "pull" /\ procs = {"A"} /\ JustQueried("A")
    /\ \E r \in table : r.cv_download_status = "Success" /\ InRange(r, range["A"])
    /\ \E r \in table : Like(r.cv_download_status, "Failed") /\ r.id \in Selected("A")

\* C10: while the upserts of a run execute, and after one of them raised,
\* the table is as it was when the run started; the exception leaves
\* insert_candidate_data and main exits with status 1.
C10_AllOrNothing ==
    ImporterRuns =>
        /\ ipc = "upsert" => table = tableAtStart
        /\ raised = "upsert" =>
              /\ table = tableAtStart
              /\ pending = "exit1"
              /\ ipc = "exited" => exitStatus = "exit1"

C10_RaisedAfterFirstStatement ==
    /\ ImporterRuns /\ ipc = "exited" /\ raised = "upsert"
    /\ idx = 2 /\ sqlState = "22001" /\ exitStatus = "exit1"

\* the columns of a row the upsert does not list
Unlisted(r) ==
    <<r.id, r.created_on, r.email, r.job_ref_number, r.etl_load_timestamp,
      r.email_status>>

BatchKeys == { KeyOf(records[i]) : i \in 1..Len(records) }

\* from `before` to `after` only rows with a key of the batch changed or
\* came, and a row that changed kept its unlisted columns
FrameKept(before, after) ==
    /\ \A r \in before :
          IF KeyOf(r) \in BatchKeys
          THEN \E n \in after : Unlisted(n) = Unlisted(r)
          ELSE r \in after
    /\ \A n \in after :
          \/ n \in before
          \/ KeyOf(n) \in BatchKeys

\* C11: a run of the importer changes or adds only rows with a key of its
\* batch, and a row that was there keeps its id, created_on, email,
\* job_ref_number, etl_load_timestamp and email_ columns.
C11_FrameEffect ==
    ImporterRuns =>
        /\ FrameKept(tableAtStart, table)
        /\ ipc = "upsert" => FrameKept(tableAtStart, txn)

C11_MailedRowUpdated ==
    /\ ImporterRuns /\ ipc = "exited" /\ raised = "" /\ runNo = 1
    /\ MailedRow \notin table
    /\ \E r \in table : r.id = 1 /\ r.cv_download_status = "Success"
                          /\ r.email_status = "sent"
    /\ Cardinality(table) = 2

\* the iteration of row i of df ended in the except clause
Excepted(i) ==
    /\ df[i].reqs # <<>>
    /\ GetRaised(df[i].reqs[Len(df[i].reqs)])

\* row i of df went through an iteration of the CV loop: its status is set,
\* and with both ids its metadata was asked for
Attempted(i) ==
    /\ df[i].cv_download_status # NA
    /\ (df[i].cv_id # NoId /\ df[i].user_id # NoId) => df[i].reqs # <<>>

\* C12: the CV loop is left only to the cleaning, with every row of the batch
\* attempted, whatever request or upload raised for a row before.
C12_LoopNeverStops ==
    ImporterRuns =>
        /\ ipc = "cv_loop" => (raised = "" /\ pending = ""
                                 /\ \A i \in 1..(idx - 1) : Attempted(i))
        /\ ipc \in {"clean", "upsert"} => \A i \in 1..Len(df) : Attempted(i)
        /\ raised \notin {"cv_loop", "cv_meta", "cv_file", "cv_upload"}

C12_LaterRowAfterException ==
    /\ ImporterRuns /\ ipc = "clean" /\ Len(df) = 2
    /\ Excepted(1)
    /\ Like(df[1].cv_download_status, "Failed - ")
    /\ df[2].cv_download_status = "Success"

\* the page requests a day of n records takes
PagesNeeded(n) == IF n = 0 THEN 1 ELSE (n + 99) \div 100

\* fetch_data_from_api came to its end with no request that failed
FetchedAll == fpc = "returned" /\ auth = "complete" /\ caught = ""

\* C13: against an API that holds n records, serves pages of 100 and reports
\* getCount = n, the loop asks for pages 1, 2, 3, ... in this order, stops
\* after max(1, ceil(n/100)) requests and returns the n records once each, in
\* the order of the report.
C13_PagesOfAnHonestServer ==
    (job = "importer" /\ server.kind = "paged") =>
        /\ \A i \in 1..Len(gets) : gets[i].pageNo = i
        /\ Len(gets) <= PagesNeeded(server.n)
        /\ FetchedAll =>
              /\ Len(gets) = PagesNeeded(server.n)
              /\ fReturned = [i \in 1..server.n |-> i]

C13_ThreePages ==
    /\ server.kind = "paged" /\ server.n = 250
    /\ FetchedAll
    /\ Len(gets) = 3 /\ Len(fReturned) = 250

FetchFailed == fpc = "returned" /\ (auth = "incomplete" \/ caught # "")

\* C15: when the login response is incomplete or a request raises, on whatever
\* page, fetch_data_from_api returns an empty DataFrame and main leaves with
\* status 0, with no CV requested and no row written.
C15_FailedFetchExitsZero ==
    (job = "importer" /\ FetchFailed) =>
        /\ fReturned = <<>>
        /\ df = <<>> /\ records = <<>>
        /\ table = tableAtStart
        /\ raised = ""
        /\ ipc \in {"fetch", "finally", "exited"}
        /\ ipc = "finally" => pending = "exit0"
        /\ ipc = "exited" => exitStatus = "exit0"

C15_FailedOnThirdPage ==
    /\ job = "importer" /\ caught = "report"
    /\ Len(gets) = 3 /\ Len(all_data) = 200
    /\ fReturned = <<>>
    /\ ipc = "exited" /\ exitStatus = "exit0"

\* the API record of row i of df has no email, no job_ref_number, or a
\* created_on that is no date
Incomplete(i) ==
    \/ df[i].email \in {NA, ""}
    \/ df[i].job_ref_number \in {NA, ""}
    \/ ToDatetime(EmptyToNA(df[i].created_on)) = NaT

\* C16: the records that go to the upsert are the ones of the batch with an
\* email, a job_ref_number and a created_on that parses; no record without
\* one of them is written.
C16_IncompleteRowsDropped ==
    (ImporterRuns /\ ipc = "upsert") =>
        /\ Len(records) = Cardinality({ i \in 1..Len(df) : ~Incomplete(i) })
        /\ \A i \in 1..Len(df) :
              Incomplete(i) =>
                 \A k \in 1..Len(records) : records[k] # CleanRow(df[i])

\* the record differs from the first of ApiRecords at most in letter case and
\* surrounding blanks of email and job_ref_number, and within the second
LikeTheFirst(rec) ==
    /\ rec.email \in {"Ab@x", " ab@X"}
    /\ rec.job_ref_number \in {"J1", "j1 "}
    /\ rec.created_on \in {"1000", "1400"}

\* the email and job_ref_number of the row are stripped and lowercased
TrimmedLowercased(r) ==
    /\ Lower(r.email) = r.email /\ Strip(r.email) = r.email
    /\ Lower(r.job_ref_number) = r.job_ref_number
    /\ Strip(r.job_ref_number) = r.job_ref_number

\* C17: the email and job_ref_number of every record that goes to the upsert,
\* and of every row stored, after each statement and at the end of the run,
\* are stripped and lowercased; records that differ only in letter case or
\* surrounding blanks of the two, in the same second, have one key and end
\* in one row.
C17_StoredTrimmedLowercased ==
    ImporterRuns =>
        /\ ipc = "upsert" =>
              /\ \A r \in txn : TrimmedLowercased(r)
              /\ \A k \in 1..Len(records) : TrimmedLowercased(records[k])
        /\ ipc = "exited" => \A r \in table : TrimmedLowercased(r)
        /\ ipc = "upsert" =>
              \A i, j \in 1..Len(df) :
                 (LikeTheFirst(df[i]) /\ LikeTheFirst(df[j])) =>
                    KeyOf(CleanRow(df[i])) = KeyOf(CleanRow(df[j]))
        /\ (ipc = "exited" /\ raised = "" /\ tableAtStart = {} /\ df # <<>>
              /\ \A i \in 1..Len(df) : LikeTheFirst(df[i])) =>
              Cardinality(table) = 1

C17_TwoSpellingsOneRow ==
    /\ ImporterRuns /\ ipc = "exited" /\ raised = "" /\ tableAtStart = {}
    /\ Len(df) = 2
    /\ df[1].email = "Ab@x" /\ df[2].email = " ab@X"
    /\ df[1].job_ref_number = "J1" /\ df[2].job_ref_number = "j1 "
    /\ Cardinality(table) = 1
    /\ \E r \in table : r.email = "ab@x" /\ r.job_ref_number = "j1"

\* p has executed a statement on the table, or is about to, or has moved a CV
TouchedTable(p) ==
    \/ plog[p] # <<>>
    \/ transfers[p] # {}
    \/ ppc[p] \in {"query", "download", "upload", "update"}

PullFailed == {"Failed: API Download", "Failed: GCS Upload Error"}

\* C19: a row whose UPDATE committed has a cv_gcs_path exactly when its
\* status is "Downloaded", after a failure it has none and a status that
\* starts with "Failed"; the next run over a range with its created_on
\* selects the failed row again and never a row marked "Downloaded".
C19_FailedAgainDownloadedNever ==
    job = "pull" =>
        /\ \A r \in table :
              r.cv_download_status \in PullFailed \cup {"Downloaded", "No CV ID"} =>
                 /\ r.cv_gcs_path # NA <=> r.cv_download_status = "Downloaded"
                 /\ r.cv_gcs_path = NA => Like(r.cv_download_status, "Failed")
        /\ JustQueried("A") =>
              \A r \in table :
                 /\ r.cv_download_status = "Downloaded" => r.id \notin Selected("A")
                 /\ (r.cv_download_status \in PullFailed /\ InRange(r, range["A"])) =>
                       r.id \in Selected("A")

C19_SecondRunSelectsFailedOnly ==
    /\ job = "pull" /\ pRunNo = 2 /\ ppc["A"] = "download" /\ pidx["A"] = 1
    /\ \E r \in table : /\ r.cv_download_status = "Failed: GCS Upload Error"
                        /\ r.id \in Selected("A")
    /\ \E r \in table : /\ r.cv_download_status = "Downloaded"
                        /\ InRange(r, range["A"])
                        /\ r.id \notin Selected("A")

\* the UPDATE statements p has executed, in order
Updates(p) ==
    LET IsUpdate(e) == e.op = "UPDATE" IN SelectSeq(plog[p], IsUpdate)

\* C20: an UPDATE that fails does not end the job; the candidates are taken
\* in the order of the query, which is that of created_on, each counted once
\* in processed_count and once as success or failure, and after the last one
\* the job leaves with status 0.
C20_UpdateFailureDoesNotHalt ==
    job = "pull" =>
        \A p \in procs :
            /\ Len(Updates(p)) <= Len(cands[p])
            /\ \A i \in 1..Len(Updates(p)) : Updates(p)[i].id = cands[p][i].id
            /\ \A i, j \in 1..Len(cands[p]) :
                  i < j => cands[p][i].created_on <= cands[p][j].created_on
            /\ counts[p].processed_count = Len(Updates(p))
            /\ pRaised[p] # "update"
            /\ (ppc[p] \in {"finally", "exited"} /\ cands[p] # <<>>) =>
                  /\ counts[p].processed_count = Len(cands[p])
                  /\ counts[p].download_success_count + counts[p].download_fail_count
                        = counts[p].processed_count
                  /\ pRaised[p] = "" /\ pPending[p] = "exit0"
                  /\ ppc[p] = "exited" => pExit[p] = "exit0"

C20_SecondAfterFailedUpdate ==
    /\ job = "pull"
    /\ \E p \in procs :
          /\ ppc[p] = "exited" /\ pExit[p] = "exit0"
          /\ Len(cands[p]) = 2 /\ Len(Updates(p)) = 2
          /\ ~Updates(p)[1].ok /\ Updates(p)[2].ok
          /\ counts[p].processed_count = 2
          /\ counts[p].download_success_count = 1
          /\ counts[p].download_fail_count = 1

\* the wait for the URL after the submit went well
UrlWaitOk == \E i \in 1..Len(lLog) : lLog[i].ev = "url" /\ lLog[i].ok

\* the last thing perform_login did is the "login_success" screenshot of its
\* finally block, after the one of the try block, and it was stored
FinallyShotOk ==
    /\ Len(lLog) >= 2
    /\ lLog[Len(lLog)] = Shot("login_success", TRUE)
    /\ lLog[Len(lLog) - 1].ev = "shot"
    /\ lLog[Len(lLog) - 1].name = "login_success"

\* C21: perform_login never raises; it returns True exactly when the wait
\* for the URL went well and the "login_success" screenshot of the finally
\* block was stored, and False in every other case.
C21_LoginReturnsNeverRaises ==
    (job = "browser" /\ script = "dl") =>
        /\ lResult # "raised"
        /\ lpc = "returned" =>
              /\ lResult \in {"True", "False"}
              /\ lResult = "True" <=> (UrlWaitOk /\ FinallyShotOk)

C21_FalseAfterFailedScreenshot ==
    /\ lpc = "returned" /\ lResult = "False"
    /\ UrlWaitOk /\ login_success
    /\ lLog[Len(lLog)] = Shot("login_success", FALSE)
    /\ lLog[Len(lLog) - 1] = Shot("login_success", TRUE)

\* the tries of a selector for the element of entry i that come before it
FindsBefore(i) ==
    { j \in 1..(i - 1) : lLog[j].ev = "find" /\ lLog[j].elem = lLog[i].elem }

\* the element was acted on: the field typed in, the button clicked
Acted(e) == \E i \in 1..Len(lLog) : lLog[i].ev = "act" /\ lLog[i].elem = e

\* the search of element e ended without a match
NotFound(e) ==
    Cardinality({ i \in 1..Len(lLog) :
                    lLog[i].ev = "find" /\ lLog[i].elem = e /\ ~lLog[i].ok })
        = 3 * Len(Selectors[e])

\* C25: each of email, password and submit is searched in at most 3
\* attempts, an attempt tries the element's selectors in their order and the
\* search stops at the first match; after a third attempt without a match
\* the login fails, and nothing is typed or clicked for an element that was
\* not found or that comes after one that was not found.
C25_ThreeAttemptsInSelectorOrder ==
    (job = "browser" /\ script = "dl") =>
        /\ \A i \in 1..Len(lLog) :
              lLog[i].ev = "find" =>
                 LET k == Cardinality(FindsBefore(i))
                     n == Len(Selectors[lLog[i].elem])
                 IN  /\ k < 3 * n
                     /\ lLog[i].attempt = k \div n
                     /\ lLog[i].sel = (k % n) + 1
                     /\ \A j \in FindsBefore(i) : ~lLog[j].ok
        /\ \A i \in 1..Len(lLog) :
              lLog[i].ev = "act" =>
                 /\ i > 1 /\ lLog[i - 1].ev = "find" /\ lLog[i - 1].ok
                 /\ lLog[i - 1].elem = lLog[i].elem
                 /\ \A e \in 1..(lLog[i].elem - 1) : \E j \in 1..(i - 1) :
                       lLog[j].ev = "act" /\ lLog[j].elem = e /\ lLog[j].ok
        /\ \A e \in 1..3 :
              NotFound(e) =>
                 /\ \A d \in e..3 : ~Acted(d)
                 /\ ~UrlWaitOk
                 /\ lpc = "returned" => lResult = "False"

C25_PasswordNotFound ==
    /\ lpc = "returned" /\ lResult = "False"
    /\ Acted(1) /\ NotFound(2)
    /\ ~Acted(2) /\ ~Acted(3)
    /\ \A i \in 1..Len(lLog) : lLog[i].ev = "find" => lLog[i].elem # 3

\* the three steps of hi_cv_downloader.main whose exception reaches the
\* outer handler
OuterSteps == {"validate", "setup_driver", "dashboard"}

IsDl == job = "browser" /\ script = "dl"

DlExitCode ==
    (IsDl /\ bExit # "running") =>
        /\ bExit \in {"exit0", "exit1"}
        /\ bExit = "exit1" <=> bRaised \in OuterSteps
        /\ (bExit = "exit1" /\ lpc = "returned") => bRaised = "dashboard"

DlGoesOn ==
    IsDl =>
        /\ bpc = "login" => bpc' \in {"login", "dashboard"}
        /\ (bpc = "dashboard" /\ bpc' # "dashboard") =>
               (bpc' = "admin" \/ (bpc' = "finally" /\ bRaised' = "dashboard"))
        /\ (bpc \in {"admin", "cv_list", "cv_meta", "cv_file", "cv_upload"}
              /\ bpc' = "finally") => bPending' = "exit0"

\* C22: hi_cv_downloader.main goes from perform_login to the dashboard
\* whatever the answer was, and from a loaded dashboard to the
\* multi-candidate-admin page; it ends with 1 exactly when validation, the
\* driver setup or the dashboard load raised and with 0 otherwise, whether
\* or not the login went well, a CV was found or a CV was stored
C22_ExitOneOnlyFromOuterSteps == []DlExitCode /\ [][DlGoesOn]_vars

\* the login failed, a CV was listed, nothing was stored, and main ended
\* with 0 after the multi-candidate-admin page
C22_ExitZeroAfterFailedLogin ==
    /\ IsDl /\ bExit = "exit0" /\ lResult = "False"
    /\ cvList # <<>> /\ \A k \in 1..Len(cvUploads) : ~cvUploads[k].ok
    /\ \E i \in 1..Len(shots) : shots[i] = "multi_candidate_admin"

\* download_cv answered None for the cv: a request raised or the metadata
\* was refused
FailedRequests(reqs) ==
    /\ reqs # <<>>
    /\ LET last == reqs[Len(reqs)]
       IN  IF last.endpoint = "download" THEN last.response = "raised"
           ELSE ~(StatusOk(last.response) /\ last.response.data)

DownloadFailed(i) == FailedRequests(cvReqs[i])

\* download_cv answered a dict for the cv
DownloadReturned(i) ==
    /\ cvReqs[i] # <<>>
    /\ cvReqs[i][Len(cvReqs[i])] = Get("download", "200")

UploadFailed(i) == \E k \in 1..Len(cvUploads) : cvUploads[k] = Upload(i, FALSE)

DlLoopIsolates ==
    IsDl =>
        /\ \A k \in 1..Len(cvUploads) :
              /\ cvUploads[k].cv \in 1..Len(cvList)
              /\ DownloadReturned(cvUploads[k].cv)
              /\ \A j \in 1..(k-1) : cvUploads[j].cv < cvUploads[k].cv
        /\ \A i \in 1..Len(cvReqs) :
              /\ (i > 1 /\ cvReqs[i] # <<>>) => cvReqs[i-1] # <<>>
              /\ (i < Len(cvReqs) /\ bpc \in {"finally", "exited"}
                    /\ (DownloadFailed(i) \/ UploadFailed(i)))
                     => cvReqs[i+1] # <<>>

DownloadNeverRaises ==
    (IsDl /\ bpc \in {"cv_meta", "cv_file"}) =>
        /\ shots' = shots
        /\ bpc' \in {"cv_meta", "cv_file", "cv_upload", "finally"}
        /\ bpc' = "finally" => (cvIdx = Len(cvList) /\ bPending' = "exit0")
        /\ bpc' = "cv_upload" => (cvIdx' = cvIdx /\ DownloadReturned(cvIdx)')
        /\ (bpc' = "cv_meta" /\ cvIdx' # cvIdx) =>
               (cvIdx' = cvIdx + 1 /\ FailedRequests(cvReqs'[cvIdx]))

\* C23: in hi_cv_downloader a step of download_cv leads to the upload of
\* the same cv (a result), to the next cv or to the end of the list (None),
\* never to a handler of main; upload_file_to_gcs is called only for a cv
\* whose download returned a result, in list order; and when main has
\* ended, the cv after one whose download failed or whose upload failed
\* was attempted
C23_FailedCvDoesNotStopTheLoop == []DlLoopIsolates /\ [][DownloadNeverRaises]_vars

\* the download of the first cv failed, the upload of the second failed,
\* and main ended
C23_SecondTriedAfterFailedFirst ==
    /\ IsDl /\ bExit = "exit0" /\ Len(cvList) = 2
    /\ DownloadFailed(1) /\ DownloadReturned(2) /\ UploadFailed(2)

IsShot == job = "browser" /\ script = "shot"

\* C24: hi_candidate_screenshot_job.setup_driver ends in one of two ways:
\* it returns the driver of the first attempt that succeeded, one of at most
\* max_retries attempts, or it raises RuntimeError after max_retries failed
\* attempts; it has slept once after every failed attempt but the last
\* (attempt counts the sleeps).
C24_DriverOrRuntimeError ==
    IsShot =>
        /\ bpc = "login" => (driver = "set" /\ attempt + 1 <= maxRetries)
        /\ bRaised = "setup_driver" => (driver = "none" /\ attempt + 1 = maxRetries)

HomeLabels == {Label("home", o) : o \in WaitOutcomes}
AdminLabels == {Label("admin", o) : o \in WaitOutcomes}

ShotExitZero ==
    IsShot =>
        /\ bRaised = "verify" => (browsers = 0 /\ bExit \in {"running", "exit1"})
        /\ (bRaised = "verify" /\ bpc = "exited") => bExit = "exit1"
        /\ bExit = "exit0" =>
              /\ Len(shots) = 2
              /\ shots[1] \in HomeLabels
              /\ shots[2] \in AdminLabels

\* a step from the branch of a timeout goes on with the alternate label
\* stored, or fails because taking that screenshot raised
TimeoutGoesOn ==
    IsShot =>
        /\ bpc \in {"home", "admin"} => bpc' # "finally"
        /\ (bpc = At("home", "timeout") /\ bpc' # bpc) =>
              \/ bpc' = "admin_get" /\ shots' = Append(shots, Label("home", "timeout"))
              \/ bpc' = "finally" /\ bRaised' = "screenshot" /\ shots' = shots
        /\ (bpc = At("admin", "timeout") /\ bpc' # bpc) =>
              \/ bpc' = "return" /\ shots' = Append(shots, Label("admin", "timeout"))
              \/ bpc' = "finally" /\ bRaised' = "screenshot" /\ shots' = shots

\* C26: hi_candidate_screenshot_job.main returns 1 with no browser started
\* when the version check fails; a timeout of the wait for the job count or
\* for the multi-candidate-admin page leads to the screenshot under the
\* alternate label and on to the next step, not to the outer handler; and
\* when main returned 0, two screenshots were uploaded, the first for the
\* home page and the second for the multi-candidate-admin page
C26_TimeoutsKeepTheJobGoing == []ShotExitZero /\ [][TimeoutGoesOn]_vars

\* both waits timed out and main returned 0 with the two alternate
\* screenshots
C26_ExitZeroAfterTwoTimeouts ==
    /\ IsShot /\ bExit = "exit0"
    /\ shots = <<Label("home", "timeout"), Label("admin", "timeout")>>

IsScrape == job = "browser" /\ script = "scrape"

HasShot(name) == \E i \in 1..Len(shots) : shots[i] = name

\* a failure with the browser running ends with status 1, after the handler
\* stored debug/error.png or failed at it
ScrapeFailureExitsOne ==
    (IsScrape /\ bpc \in {"finally", "exited"} /\ driver = "set" /\ bRaised # "") =>
        /\ bPending = "exit1"
        /\ bpc = "exited" => bExit = "exit1"
        /\ \/ shots # <<>> /\ shots[Len(shots)] = "debug/error.png"
           \/ tmpFiles >= 1

\* the admin page comes after the screenshot of the loaded dashboard
ScrapeAdminAfterDashboard ==
    (IsScrape /\ (bpc = "admin" \/ HasShot("debug/multi_candidate_admin.png"))) =>
        (shots # <<>> /\ shots[1] = "debug/dashboard_loaded.png")

\* C27: in scrape_cv_links.run a failure with the browser running leads to
\* the debug/error.png screenshot being tried and to exit status 1, the
\* multi-candidate-admin page is opened only after the dashboard wait went
\* well, and no temporary screenshot file is left when run has ended
C27_NoTmpFileLeft ==
    /\ ScrapeFailureExitsOne
    /\ ScrapeAdminAfterDashboard
    /\ (IsScrape /\ bpc = "exited") => tmpFiles = 0

\* the process has a date range: DATES was accepted
Accepted(p) == job = "pull" /\ range[p] # NoRange

\* start_date_obj is the Monday of the week DATES names, end_date_obj the
\* earlier of its Sunday and now
WeekUpToNow(p) ==
    LET week == ParseDates(dates_var[p])
    IN  /\ week # NoRange
        /\ range[p].start = week.start
        /\ range[p].end = Min(week.end, clock)
        /\ range[p].end <= clock

====
